---- MODULE Spec2Model ----
(***************************************************************************)
(* A model of the OOXML converters of mq-conv: src/formats/word.rs and     *)
(* src/formats/powerpoint.rs.                                              *)
(*                                                                         *)
(* Text is a sequence of one-character strings, so that escaping,          *)
(* trimming, emphasis wrapping and number parsing are computed the way the *)
(* code computes them.  The sink is the sequence of characters written.    *)
(***************************************************************************)
EXTENDS Integers, Sequences, FiniteSets, TLC

VARIABLES
    \* format_run_text applied to one run (word.rs and powerpoint.rs)
    f_pc, f_text, f_bold, f_italic, f_word, f_ppt,
    \* write_table applied to one list of rows (word.rs and powerpoint.rs)
    t_pc, t_rows, t_word, t_ppt,
    \* parse_document (word.rs) fed one XML event at a time: the builder's
    \* locals, the reader's open elements and state, the events read
    wb, w_stack, w_state, w_n,
    \* Converter::convert run on one input and one sink: the converter that
    \* ran, the input, the sink, the bytes written, the value returned; the
    \* document the input was written from, if it was; and the bytes written
    \* and the value returned when the same converter is called once more on
    \* the same input with a new sink of the same kind
    cv_pc, cv_conv, cv_input, cv_sink, cv_out, cv_res, cv_doc, cv_out2, cv_res2,
    \* write_value_as_markdown (structured.rs) applied to one value: the
    \* value and the bytes written
    sd_pc, sd_value, sd_out,
    \* parse_document or extract_slide_content fed the events of one part:
    \* the builder that runs, the element tree the part was written from, its
    \* events, the number of events read, the locals of either builder, and
    \* whether the loop is reading, broke at the end of input or returned
    \* the error
    ps_kind, ps_tree, ps_events, ps_n, ps_wb, ps_sb, ps_state

fmt_vars == <<f_pc, f_text, f_bold, f_italic, f_word, f_ppt>>
tbl_vars == <<t_pc, t_rows, t_word, t_ppt>>
wb_vars == <<wb, w_stack, w_state, w_n>>
cv_vars == <<cv_pc, cv_conv, cv_input, cv_sink, cv_out, cv_res, cv_doc, cv_out2, cv_res2>>
sd_vars == <<sd_pc, sd_value, sd_out>>
ps_vars == <<ps_kind, ps_tree, ps_events, ps_n, ps_wb, ps_sb, ps_state>>
vars == <<fmt_vars, tbl_vars, wb_vars, cv_vars, sd_vars, ps_vars>>

(***************************************************************************)
(* Bounds of the model.                                                    *)
(***************************************************************************)
MaxTextLen == 3
MaxRows == 2
MaxCols == 2
MaxEvents == 5
MaxEntries == 2
MaxBlocks == 2
MaxParas == 2
MaxDepth == 8
SinkCap == 4

(***************************************************************************)
(* Sequences of characters.                                                *)
(***************************************************************************)
NL == "\n"

SeqsUpTo(S, n) == UNION {[1..k -> S] : k \in 0..n}

RECURSIVE Concat(_)
Concat(ss) == IF ss = <<>> THEN <<>> ELSE Head(ss) \o Concat(Tail(ss))

RECURSIVE Repeat(_, _)
Repeat(s, n) == IF n <= 0 THEN <<>> ELSE s \o Repeat(s, n - 1)

Max(a, b) == IF a >= b THEN a ELSE b

(***************************************************************************)
(* format_run_text, word.rs: the text of one run with its emphasis.        *)
(***************************************************************************)
word_format_run_text_single_star(text, bold, italic) ==
    IF text = <<>> THEN <<>>
    ELSE IF bold /\ italic THEN <<"*", "*", "*">> \o text \o <<"*", "*", "*">>
    ELSE IF bold THEN <<"*">> \o text \o <<"*">>
    ELSE IF italic THEN <<"*">> \o text \o <<"*">>
    ELSE text

word_format_run_text(text, bold, italic) ==
    IF text = <<>> THEN <<>>
    ELSE IF bold /\ italic THEN <<"*", "*", "*">> \o text \o <<"*", "*", "*">>
    ELSE IF bold /\ ~italic THEN <<"*", "*">> \o text \o <<"*", "*">>
    ELSE IF ~bold /\ italic THEN <<"*">> \o text \o <<"*">>
    ELSE text

(***************************************************************************)
(* format_run_text, powerpoint.rs.                                         *)
(***************************************************************************)
ppt_format_run_text(text, bold, italic) ==
    IF text = <<>> THEN <<>>
    ELSE IF bold /\ italic THEN <<"*", "*", "*">> \o text \o <<"*", "*", "*">>
    ELSE IF bold /\ ~italic THEN <<"*", "*">> \o text \o <<"*", "*">>
    ELSE IF ~bold /\ italic THEN <<"*">> \o text \o <<"*">>
    ELSE text

(***************************************************************************)
(* str::replace('|', "\\|") as write_table applies it to a cell.           *)
(***************************************************************************)
RECURSIVE replace_pipe(_)
replace_pipe(cell) ==
    IF cell = <<>> THEN <<>>
    ELSE (IF Head(cell) = "|" THEN <<"\\", "|">> ELSE <<Head(cell)>>)
         \o replace_pipe(Tail(cell))

\* rows.iter().map(|r| r.len()).max().unwrap_or(0)
RECURSIVE col_count(_)
col_count(rows) ==
    IF rows = <<>> THEN 0 ELSE Max(Len(Head(rows)), col_count(Tail(rows)))

\* row.get(i).map(|s| s.as_str()).unwrap_or("")
row_get(row, i) == IF i <= Len(row) THEN row[i] ELSE <<>>

(***************************************************************************)
(* write_table, word.rs.  One row: "|", then " {cell} |" for each of the   *)
(* col_count columns, then the line end.                                   *)
(***************************************************************************)
RECURSIVE word_write_cells(_, _, _)
word_write_cells(row, i, cols) ==
    IF i > cols THEN <<>>
    ELSE <<" ">> \o replace_pipe(row_get(row, i)) \o <<" ", "|">>
         \o word_write_cells(row, i + 1, cols)

word_write_row(row, cols) == <<"|">> \o word_write_cells(row, 1, cols) \o <<NL>>

word_write_separator(cols) ==
    <<"|">> \o Repeat(<<"-", "-", "-", "|">>, cols) \o <<NL>>

RECURSIVE word_write_data(_, _)
word_write_data(rows, cols) ==
    IF rows = <<>> THEN <<>>
    ELSE word_write_row(Head(rows), cols) \o word_write_data(Tail(rows), cols)

word_write_table_row_width(rows) ==
    IF rows = <<>> THEN <<>>
    ELSE IF col_count(rows) = 0 THEN <<>>
    ELSE word_write_row(rows[1], col_count(rows))
         \o word_write_separator(col_count(rows))
         \o Concat([k \in 1..(Len(rows) - 1) |->
                       word_write_row(rows[k + 1], Len(rows[k + 1]))])

word_write_table_separator_last(rows) ==
    IF rows = <<>> THEN <<>>
    ELSE IF col_count(rows) = 0 THEN <<>>
    ELSE word_write_row(rows[1], col_count(rows))
         \o word_write_data(Tail(rows), col_count(rows))
         \o word_write_separator(col_count(rows))

word_write_table(rows) ==
    IF rows = <<>> THEN <<>>
    ELSE IF col_count(rows) = 0 THEN <<>>
    ELSE word_write_row(rows[1], col_count(rows))
         \o word_write_separator(col_count(rows))
         \o word_write_data(Tail(rows), col_count(rows))

(***************************************************************************)
(* write_table, powerpoint.rs.                                             *)
(***************************************************************************)
RECURSIVE ppt_write_cells(_, _, _)
ppt_write_cells(row, i, cols) ==
    IF i > cols THEN <<>>
    ELSE <<" ">> \o replace_pipe(row_get(row, i)) \o <<" ", "|">>
         \o ppt_write_cells(row, i + 1, cols)

ppt_write_row_unescaped(row, cols) ==
    <<"|">>
    \o Concat([i \in 1..cols |-> <<" ">> \o row_get(row, i) \o <<" ", "|">>])
    \o <<NL>>

ppt_write_row(row, cols) == <<"|">> \o ppt_write_cells(row, 1, cols) \o <<NL>>

ppt_write_separator(cols) ==
    <<"|">> \o Repeat(<<"-", "-", "-", "|">>, cols) \o <<NL>>

RECURSIVE ppt_write_data(_, _)
ppt_write_data(rows, cols) ==
    IF rows = <<>> THEN <<>>
    ELSE ppt_write_row(Head(rows), cols) \o ppt_write_data(Tail(rows), cols)

ppt_write_table(rows) ==
    IF rows = <<>> THEN <<>>
    ELSE IF col_count(rows) = 0 THEN <<>>
    ELSE ppt_write_row(rows[1], col_count(rows))
         \o ppt_write_separator(col_count(rows))
         \o ppt_write_data(Tail(rows), col_count(rows))

(***************************************************************************)
(* Errors and results.  Error::Conversion {format, message}, Error::Io.    *)
(***************************************************************************)
Ok(v) == [ok |-> TRUE, value |-> v]
ConversionErr(format, message) ==
    [ok |-> FALSE, variant |-> "Conversion", format |-> format, message |-> message]
IoErr(message) ==
    [ok |-> FALSE, variant |-> "Io", format |-> "", message |-> message]

(***************************************************************************)
(* XML events as quick_xml's Reader::read_event yields them.  A name is    *)
(* its parts between ':' (<<"w", "p">> is w:p); an attribute is a key and  *)
(* a value.  Comments, declarations and the like are "Other".              *)
(***************************************************************************)
StartEv(name, attrs) == [type |-> "Start", name |-> name, attrs |-> attrs, text |-> <<>>]
EmptyEv(name, attrs) == [type |-> "Empty", name |-> name, attrs |-> attrs, text |-> <<>>]
EndEv(name) == [type |-> "End", name |-> name, attrs |-> <<>>, text |-> <<>>]
TextEv(text) == [type |-> "Text", name |-> <<>>, attrs |-> <<>>, text |-> text]
OtherEv == [type |-> "Other", name |-> <<>>, attrs |-> <<>>, text |-> <<>>]
EofEv == [type |-> "Eof", name |-> <<>>, attrs |-> <<>>, text |-> <<>>]
ErrEv == [type |-> "Err", name |-> <<>>, attrs |-> <<>>, text |-> <<>>]

Attr(key, value) == [key |-> key, value |-> value]

\* local_name: the part of the name after its last ':'
local_name(name) == IF name = <<>> THEN "" ELSE name[Len(name)]

(***************************************************************************)
(* Strings: trim, to_ascii_lowercase, strip_prefix, parse::<u8>.           *)
(***************************************************************************)
Whitespace == {" ", "\t", NL}

RECURSIVE trim_start(_)
trim_start(s) ==
    IF s # <<>> /\ Head(s) \in Whitespace THEN trim_start(Tail(s)) ELSE s

RECURSIVE trim_end(_)
trim_end(s) ==
    IF s # <<>> /\ s[Len(s)] \in Whitespace
    THEN trim_end(SubSeq(s, 1, Len(s) - 1)) ELSE s

trim(s) == trim_end(trim_start(s))

UpperCase == <<"A", "B", "C", "D", "E", "F", "G", "H", "I", "J", "K", "L", "M",
               "N", "O", "P", "Q", "R", "S", "T", "U", "V", "W", "X", "Y", "Z">>
LowerCase == <<"a", "b", "c", "d", "e", "f", "g", "h", "i", "j", "k", "l", "m",
               "n", "o", "p", "q", "r", "s", "t", "u", "v", "w", "x", "y", "z">>

to_ascii_lowercase(s) ==
    [i \in 1..Len(s) |->
        IF \E k \in 1..Len(UpperCase) : UpperCase[k] = s[i]
        THEN LowerCase[CHOOSE k \in 1..Len(UpperCase) : UpperCase[k] = s[i]]
        ELSE s[i]]

starts_with(s, prefix) ==
    Len(s) >= Len(prefix) /\ SubSeq(s, 1, Len(prefix)) = prefix

Digits == <<"0", "1", "2", "3", "4", "5", "6", "7", "8", "9">>
IsDigit(c) == \E k \in 1..Len(Digits) : Digits[k] = c
DigitValue(c) == (CHOOSE k \in 1..Len(Digits) : Digits[k] = c) - 1

\* A decimal numeral without its leading zeros ("0" for zero).
RECURSIVE strip_zeros(_)
strip_zeros(ds) ==
    IF Len(ds) > 1 /\ Head(ds) = "0" THEN strip_zeros(Tail(ds)) ELSE ds

\* a < b for two numerals of the same length
RECURSIVE numeral_less_same_len(_, _)
numeral_less_same_len(a, b) ==
    IF a = <<>> THEN FALSE
    ELSE IF Head(a) # Head(b) THEN DigitValue(Head(a)) < DigitValue(Head(b))
    ELSE numeral_less_same_len(Tail(a), Tail(b))

\* a < b for two numerals without leading zeros
numeral_less(a, b) ==
    Len(a) < Len(b) \/ (Len(a) = Len(b) /\ numeral_less_same_len(a, b))

\* str::parse for an unsigned integer type whose largest value is the
\* numeral max: an optional '+', then one or more decimal digits, the value
\* in range.  The value is kept as its numeral, u32::MAX being more than a
\* model integer holds.
ParseErr == [ok |-> FALSE, numeral |-> <<>>]
parse_unsigned(s, max) ==
    LET ds == IF s # <<>> /\ Head(s) = "+" THEN Tail(s) ELSE s
    IN  IF ds = <<>> \/ \E i \in 1..Len(ds) : ~IsDigit(ds[i]) THEN ParseErr
        ELSE IF numeral_less(max, strip_zeros(ds)) THEN ParseErr
        ELSE [ok |-> TRUE, numeral |-> strip_zeros(ds)]

U8Max == <<"2", "5", "5">>
U32Max == <<"4", "2", "9", "4", "9", "6", "7", "2", "9", "5">>

(***************************************************************************)
(* heading_level and is_blockquote, word.rs.  0 stands for None.           *)
(***************************************************************************)
StrHeading == <<"h", "e", "a", "d", "i", "n", "g">>
StrTitre == <<"t", "i", "t", "r", "e">>
StrQuote == <<"q", "u", "o", "t", "e">>
StrIntenseQuote == <<"i", "n", "t", "e", "n", "s", "e">> \o StrQuote
StrBlockQuote == <<"b", "l", "o", "c", "k">> \o StrQuote

\* .parse::<u8>().ok().filter(|&n| (1..=6).contains(&n))
heading_rest(rest) ==
    LET n == parse_unsigned(trim(rest), U8Max)
    IN  IF n.ok /\ Len(n.numeral) = 1 /\ DigitValue(n.numeral[1]) \in 1..6
        THEN DigitValue(n.numeral[1]) ELSE 0

heading_level(style) ==
    LET lower == to_ascii_lowercase(style)
    IN  IF starts_with(lower, StrHeading)
        THEN heading_rest(SubSeq(lower, Len(StrHeading) + 1, Len(lower)))
        ELSE IF starts_with(lower, StrTitre)
        THEN heading_rest(SubSeq(lower, Len(StrTitre) + 1, Len(lower)))
        ELSE 0

is_blockquote(style) ==
    LET lower == to_ascii_lowercase(style)
    IN  lower = StrQuote \/ lower = StrIntenseQuote \/ lower = StrBlockQuote

(***************************************************************************)
(* parse_document, word.rs: the locals of the function, and what each      *)
(* kind of event does to them.                                             *)
(***************************************************************************)
NoStyle == [some |-> FALSE, value |-> <<>>]
SomeStyle(v) == [some |-> TRUE, value |-> v]

Block(kind, level, text, rows) ==
    [kind |-> kind, level |-> level, text |-> text, rows |-> rows]
Heading(level, text) == Block("Heading", level, text, <<>>)
TextBlock(text) == Block("Text", 0, text, <<>>)
ListItem(text) == Block("ListItem", 0, text, <<>>)
BlockQuote(text) == Block("BlockQuote", 0, text, <<>>)
TableBlock(rows) == Block("Table", 0, <<>>, rows)

word_locals ==
    [paragraphs |-> <<>>,
     in_paragraph |-> FALSE, in_run |-> FALSE, in_table |-> FALSE,
     in_table_row |-> FALSE, in_table_cell |-> FALSE,
     current_text |-> <<>>, current_style |-> NoStyle,
     is_bold |-> FALSE, is_italic |-> FALSE, is_list_item |-> FALSE,
     table_rows |-> <<>>, table_row |-> <<>>, cell_text |-> <<>>]

\* Ok(Event::Start(e)), the style and the flags of the paragraph before kept
word_on_start_flags_kept(st, name) ==
    LET local == local_name(name)
    IN  IF local = "p"
        THEN [st EXCEPT !.in_paragraph = TRUE, !.current_text = <<>>]
        ELSE IF local = "r" THEN [st EXCEPT !.in_run = TRUE]
        ELSE IF local = "tbl" THEN [st EXCEPT !.in_table = TRUE, !.table_rows = <<>>]
        ELSE IF local = "tr" THEN [st EXCEPT !.in_table_row = TRUE, !.table_row = <<>>]
        ELSE IF local = "tc" THEN [st EXCEPT !.in_table_cell = TRUE, !.cell_text = <<>>]
        ELSE st

\* Ok(Event::Start(e))
word_on_start(st, name) ==
    LET local == local_name(name)
    IN  IF local = "p"
        THEN [st EXCEPT !.in_paragraph = TRUE, !.current_text = <<>>,
                        !.current_style = NoStyle, !.is_bold = FALSE,
                        !.is_italic = FALSE, !.is_list_item = FALSE]
        ELSE IF local = "r" THEN [st EXCEPT !.in_run = TRUE]
        ELSE IF local = "tbl" THEN [st EXCEPT !.in_table = TRUE, !.table_rows = <<>>]
        ELSE IF local = "tr" THEN [st EXCEPT !.in_table_row = TRUE, !.table_row = <<>>]
        ELSE IF local = "tc" THEN [st EXCEPT !.in_table_cell = TRUE, !.cell_text = <<>>]
        ELSE st

\* for attr in e.attributes().flatten(): the last w:val or val attribute wins
RECURSIVE word_style_attr(_, _)
word_style_attr(attrs, style) ==
    IF attrs = <<>> THEN style
    ELSE word_style_attr(Tail(attrs),
             IF Head(attrs).key = <<"w", "val">> \/ Head(attrs).key = <<"val">>
             THEN SomeStyle(Head(attrs).value) ELSE style)

\* Ok(Event::Empty(e))
word_on_empty(st, name, attrs) ==
    LET local == local_name(name)
    IN  IF local = "pStyle"
        THEN [st EXCEPT !.current_style = word_style_attr(attrs, st.current_style)]
        ELSE IF local = "b" THEN [st EXCEPT !.is_bold = TRUE]
        ELSE IF local = "i" THEN [st EXCEPT !.is_italic = TRUE]
        ELSE IF local = "numPr" \/ local = "ilvl" THEN [st EXCEPT !.is_list_item = TRUE]
        ELSE st

\* Ok(Event::Text(e))
word_on_text(st, text) ==
    IF st.in_run \/ st.in_table_cell
    THEN IF st.in_table_cell
         THEN [st EXCEPT !.cell_text = st.cell_text \o text]
         ELSE IF st.in_paragraph
         THEN [st EXCEPT !.current_text =
                   st.current_text \o word_format_run_text(text, st.is_bold, st.is_italic)]
         ELSE st
    ELSE st

\* the block of a closing paragraph, a numbering marker going before the style
word_classify_list_first(st) ==
    IF st.is_list_item THEN ListItem(st.current_text)
    ELSE IF st.current_style.some /\ heading_level(st.current_style.value) # 0
    THEN Heading(heading_level(st.current_style.value), st.current_text)
    ELSE IF st.current_style.some /\ is_blockquote(st.current_style.value)
    THEN BlockQuote(st.current_text)
    ELSE TextBlock(st.current_text)

\* the block a paragraph becomes when it closes outside a table cell
word_classify(st) ==
    IF st.current_style.some
    THEN IF heading_level(st.current_style.value) # 0
         THEN Heading(heading_level(st.current_style.value), st.current_text)
         ELSE IF is_blockquote(st.current_style.value)
         THEN BlockQuote(st.current_text)
         ELSE IF st.is_list_item THEN ListItem(st.current_text)
         ELSE TextBlock(st.current_text)
    ELSE IF st.is_list_item THEN ListItem(st.current_text)
    ELSE TextBlock(st.current_text)

\* Ok(Event::End(e))
word_on_end(st, name) ==
    LET local == local_name(name)
    IN  IF local = "p"
        THEN IF st.in_table_cell THEN [st EXCEPT !.in_paragraph = FALSE]
             ELSE IF st.in_paragraph
             THEN [st EXCEPT !.paragraphs = Append(st.paragraphs, word_classify(st)),
                             !.in_paragraph = FALSE]
             ELSE [st EXCEPT !.in_paragraph = FALSE]
        ELSE IF local = "r"
        THEN [st EXCEPT !.in_run = FALSE, !.is_bold = FALSE, !.is_italic = FALSE]
        ELSE IF local = "tc"
        THEN [st EXCEPT !.table_row = Append(st.table_row, trim(st.cell_text)),
                        !.cell_text = <<>>, !.in_table_cell = FALSE]
        ELSE IF local = "tr"
        THEN [st EXCEPT !.table_rows = Append(st.table_rows, st.table_row),
                        !.table_row = <<>>, !.in_table_row = FALSE]
        ELSE IF local = "tbl"
        THEN [st EXCEPT !.paragraphs =
                            IF st.table_rows # <<>>
                            THEN Append(st.paragraphs, TableBlock(st.table_rows))
                            ELSE st.paragraphs,
                        !.table_rows = <<>>, !.in_table = FALSE]
        ELSE st

\* one turn of the loop on an event that neither ends nor fails the parse
word_on_event(st, ev) ==
    IF ev.type = "Start" THEN word_on_start(st, ev.name)
    ELSE IF ev.type = "Empty" THEN word_on_empty(st, ev.name, ev.attrs)
    ELSE IF ev.type = "Text" THEN word_on_text(st, ev.text)
    ELSE IF ev.type = "End" THEN word_on_end(st, ev.name)
    ELSE st

MsgParseDocument == "Failed to parse document.xml: {e}"

\* parse_document on the events of a part: Ok(paragraphs) at Eof, the
\* Conversion error at Err.  Events after the first Eof or Err are not read.
RECURSIVE word_parse_from(_, _)
word_parse_from(st, events) ==
    IF events = <<>> THEN Ok(st.paragraphs)
    ELSE IF Head(events).type = "Eof" THEN Ok(st.paragraphs)
    ELSE IF Head(events).type = "Err" THEN ConversionErr("word", MsgParseDocument)
    ELSE LET next == word_on_event(st, Head(events))
         IN  IF next = st THEN word_parse_from(st, Tail(events))
             ELSE word_parse_from(next, Tail(events))

parse_document(events) == word_parse_from(word_locals, events)

(***************************************************************************)
(* extract_slide_content, powerpoint.rs: the locals of the function, and   *)
(* what each kind of event does to them.  The arms of each match are       *)
(* tried in the order of the source, a guard that fails passing on to the  *)
(* arms below (none of which names the same tag, so nothing happens).      *)
(***************************************************************************)
TextRun(text, bold, italic) == [text |-> text, bold |-> bold, italic |-> italic]
EmptyRun == TextRun(<<>>, FALSE, FALSE)

SlideShape(paragraphs, is_title, is_subtitle, has_bullets) ==
    [paragraphs |-> paragraphs, is_title |-> is_title,
     is_subtitle |-> is_subtitle, has_bullets |-> has_bullets]

SlideContent(shapes, tables) == [shapes |-> shapes, tables |-> tables]

ppt_locals ==
    [shapes |-> <<>>, tables |-> <<>>,
     in_shape |-> FALSE, in_text_body |-> FALSE, in_paragraph |-> FALSE,
     in_run |-> FALSE, in_text |-> FALSE, in_ppr |-> FALSE, in_rpr |-> FALSE,
     in_table |-> FALSE, in_table_row |-> FALSE, in_table_cell |-> FALSE,
     current_run |-> EmptyRun, current_paragraph |-> <<>>, paragraphs |-> <<>>,
     shape_type |-> "", has_bullets |-> FALSE,
     table_rows |-> <<>>, table_row |-> <<>>, cell_text |-> <<>>]

\* for attr in e.attributes().flatten(): b and i set the run's flags
RECURSIVE ppt_rpr_attrs(_, _)
ppt_rpr_attrs(attrs, run) ==
    IF attrs = <<>> THEN run
    ELSE ppt_rpr_attrs(Tail(attrs),
             IF Head(attrs).key = <<"b">>
             THEN [run EXCEPT !.bold = (Head(attrs).value = "1" \/ Head(attrs).value = "true")]
             ELSE IF Head(attrs).key = <<"i">>
             THEN [run EXCEPT !.italic = (Head(attrs).value = "1" \/ Head(attrs).value = "true")]
             ELSE run)

\* Ok(Event::Start(e)), the placeholder type of the previous shape kept
ppt_on_start_type_kept(st, name, attrs) ==
    LET local == local_name(name)
    IN  IF (local = "sp" \/ local = "pic") /\ ~st.in_table
        THEN [st EXCEPT !.in_shape = TRUE, !.paragraphs = <<>>,
                        !.has_bullets = FALSE]
        ELSE IF local = "txBody" THEN [st EXCEPT !.in_text_body = TRUE]
        ELSE IF local = "p" /\ st.in_text_body
        THEN [st EXCEPT !.in_paragraph = TRUE, !.current_paragraph = <<>>]
        ELSE IF local = "pPr" /\ st.in_paragraph THEN [st EXCEPT !.in_ppr = TRUE]
        ELSE IF local = "r" /\ st.in_paragraph
        THEN [st EXCEPT !.in_run = TRUE, !.current_run = EmptyRun]
        ELSE IF local = "rPr" /\ st.in_run
        THEN [st EXCEPT !.in_rpr = TRUE,
                        !.current_run = ppt_rpr_attrs(attrs, st.current_run)]
        ELSE IF local = "t" /\ st.in_run THEN [st EXCEPT !.in_text = TRUE]
        ELSE IF local = "tbl" THEN [st EXCEPT !.in_table = TRUE, !.table_rows = <<>>]
        ELSE IF local = "tr" /\ st.in_table
        THEN [st EXCEPT !.in_table_row = TRUE, !.table_row = <<>>]
        ELSE IF local = "tc" /\ st.in_table_row
        THEN [st EXCEPT !.in_table_cell = TRUE, !.cell_text = <<>>]
        ELSE st

\* Ok(Event::Start(e)), the bullet flag of the previous shape kept
ppt_on_start_bullets_kept(st, name, attrs) ==
    LET local == local_name(name)
    IN  IF (local = "sp" \/ local = "pic") /\ ~st.in_table
        THEN [st EXCEPT !.in_shape = TRUE, !.paragraphs = <<>>,
                        !.shape_type = ""]
        ELSE IF local = "txBody" THEN [st EXCEPT !.in_text_body = TRUE]
        ELSE IF local = "p" /\ st.in_text_body
        THEN [st EXCEPT !.in_paragraph = TRUE, !.current_paragraph = <<>>]
        ELSE IF local = "pPr" /\ st.in_paragraph THEN [st EXCEPT !.in_ppr = TRUE]
        ELSE IF local = "r" /\ st.in_paragraph
        THEN [st EXCEPT !.in_run = TRUE, !.current_run = EmptyRun]
        ELSE IF local = "rPr" /\ st.in_run
        THEN [st EXCEPT !.in_rpr = TRUE,
                        !.current_run = ppt_rpr_attrs(attrs, st.current_run)]
        ELSE IF local = "t" /\ st.in_run THEN [st EXCEPT !.in_text = TRUE]
        ELSE IF local = "tbl" THEN [st EXCEPT !.in_table = TRUE, !.table_rows = <<>>]
        ELSE IF local = "tr" /\ st.in_table
        THEN [st EXCEPT !.in_table_row = TRUE, !.table_row = <<>>]
        ELSE IF local = "tc" /\ st.in_table_row
        THEN [st EXCEPT !.in_table_cell = TRUE, !.cell_text = <<>>]
        ELSE st

\* Ok(Event::Start(e))
ppt_on_start(st, name, attrs) ==
    LET local == local_name(name)
    IN  IF (local = "sp" \/ local = "pic") /\ ~st.in_table
        THEN [st EXCEPT !.in_shape = TRUE, !.paragraphs = <<>>,
                        !.shape_type = "", !.has_bullets = FALSE]
        ELSE IF local = "txBody" THEN [st EXCEPT !.in_text_body = TRUE]
        ELSE IF local = "p" /\ st.in_text_body
        THEN [st EXCEPT !.in_paragraph = TRUE, !.current_paragraph = <<>>]
        ELSE IF local = "pPr" /\ st.in_paragraph THEN [st EXCEPT !.in_ppr = TRUE]
        ELSE IF local = "r" /\ st.in_paragraph
        THEN [st EXCEPT !.in_run = TRUE, !.current_run = EmptyRun]
        ELSE IF local = "rPr" /\ st.in_run
        THEN [st EXCEPT !.in_rpr = TRUE,
                        !.current_run = ppt_rpr_attrs(attrs, st.current_run)]
        ELSE IF local = "t" /\ st.in_run THEN [st EXCEPT !.in_text = TRUE]
        ELSE IF local = "tbl" THEN [st EXCEPT !.in_table = TRUE, !.table_rows = <<>>]
        ELSE IF local = "tr" /\ st.in_table
        THEN [st EXCEPT !.in_table_row = TRUE, !.table_row = <<>>]
        ELSE IF local = "tc" /\ st.in_table_row
        THEN [st EXCEPT !.in_table_cell = TRUE, !.cell_text = <<>>]
        ELSE st

\* for attr in e.attributes().flatten(): the last type attribute wins
RECURSIVE ppt_ph_attrs(_, _)
ppt_ph_attrs(attrs, shape_type) ==
    IF attrs = <<>> THEN shape_type
    ELSE ppt_ph_attrs(Tail(attrs),
             IF Head(attrs).key = <<"type">> THEN Head(attrs).value ELSE shape_type)

\* Ok(Event::Empty(e)), the type attribute read from any other element too
ppt_on_empty_type_of_any(st, name, attrs) ==
    LET local == local_name(name)
    IN  IF (local = "buChar" \/ local = "buAutoNum" \/ local = "buFont") /\ st.in_ppr
        THEN [st EXCEPT !.has_bullets = TRUE]
        ELSE IF local = "rPr" /\ st.in_run
        THEN [st EXCEPT !.current_run = ppt_rpr_attrs(attrs, st.current_run)]
        ELSE [st EXCEPT !.shape_type =
                  IF ppt_ph_attrs(attrs, st.shape_type) = "" THEN "body"
                  ELSE ppt_ph_attrs(attrs, st.shape_type)]

\* Ok(Event::Empty(e))
ppt_on_empty(st, name, attrs) ==
    LET local == local_name(name)
    IN  IF local = "ph"
        THEN [st EXCEPT !.shape_type =
                  IF ppt_ph_attrs(attrs, st.shape_type) = "" THEN "body"
                  ELSE ppt_ph_attrs(attrs, st.shape_type)]
        ELSE IF (local = "buChar" \/ local = "buAutoNum" \/ local = "buFont") /\ st.in_ppr
        THEN [st EXCEPT !.has_bullets = TRUE]
        ELSE IF local = "rPr" /\ st.in_run
        THEN [st EXCEPT !.current_run = ppt_rpr_attrs(attrs, st.current_run)]
        ELSE st

\* Ok(Event::Text(e)), the text of a table cell given to the open run
ppt_on_text_into_runs(st, decoded) ==
    IF st.in_text
    THEN [st EXCEPT !.current_run.text = st.current_run.text \o decoded]
    ELSE st

\* Ok(Event::Text(e))
ppt_on_text(st, decoded) ==
    IF st.in_table_cell THEN [st EXCEPT !.cell_text = st.cell_text \o decoded]
    ELSE IF st.in_text
    THEN [st EXCEPT !.current_run.text = st.current_run.text \o decoded]
    ELSE st

\* Ok(Event::End(e)), a closing run, paragraph or shape kept even when empty
ppt_on_end_keeping_empty(st, name) ==
    LET local == local_name(name)
    IN  IF (local = "sp" \/ local = "pic") /\ ~st.in_table
        THEN IF st.in_shape
             THEN [st EXCEPT !.shapes = Append(st.shapes,
                                 SlideShape(st.paragraphs,
                                            st.shape_type \in {"title", "ctrTitle"},
                                            st.shape_type = "subTitle",
                                            st.has_bullets)),
                             !.paragraphs = <<>>, !.in_shape = FALSE]
             ELSE [st EXCEPT !.in_shape = FALSE]
        ELSE IF local = "txBody" THEN [st EXCEPT !.in_text_body = FALSE]
        ELSE IF local = "p" /\ st.in_text_body /\ ~st.in_table_cell
        THEN IF st.in_paragraph
             THEN [st EXCEPT !.paragraphs = Append(st.paragraphs, st.current_paragraph),
                             !.current_paragraph = <<>>, !.in_paragraph = FALSE]
             ELSE [st EXCEPT !.in_paragraph = FALSE]
        ELSE IF local = "pPr" THEN [st EXCEPT !.in_ppr = FALSE]
        ELSE IF local = "r" /\ ~st.in_table_cell
        THEN IF st.in_run
             THEN [st EXCEPT !.current_paragraph = Append(st.current_paragraph, st.current_run),
                             !.current_run = EmptyRun,
                             !.in_run = FALSE, !.in_rpr = FALSE]
             ELSE [st EXCEPT !.in_run = FALSE, !.in_rpr = FALSE]
        ELSE IF local = "rPr" THEN [st EXCEPT !.in_rpr = FALSE]
        ELSE IF local = "t" THEN [st EXCEPT !.in_text = FALSE]
        ELSE IF local = "tc"
        THEN [st EXCEPT !.table_row = Append(st.table_row, trim(st.cell_text)),
                        !.cell_text = <<>>, !.in_table_cell = FALSE]
        ELSE IF local = "tr"
        THEN [st EXCEPT !.table_rows = Append(st.table_rows, st.table_row),
                        !.table_row = <<>>, !.in_table_row = FALSE]
        ELSE IF local = "tbl"
        THEN [st EXCEPT !.tables = IF st.table_rows # <<>>
                                   THEN Append(st.tables, st.table_rows)
                                   ELSE st.tables,
                        !.table_rows = <<>>, !.in_table = FALSE]
        ELSE st

\* Ok(Event::End(e))
ppt_on_end(st, name) ==
    LET local == local_name(name)
    IN  IF (local = "sp" \/ local = "pic") /\ ~st.in_table
        THEN IF st.in_shape /\ st.paragraphs # <<>>
             THEN [st EXCEPT !.shapes = Append(st.shapes,
                                 SlideShape(st.paragraphs,
                                            st.shape_type \in {"title", "ctrTitle"},
                                            st.shape_type = "subTitle",
                                            st.has_bullets)),
                             !.paragraphs = <<>>, !.in_shape = FALSE]
             ELSE [st EXCEPT !.in_shape = FALSE]
        ELSE IF local = "txBody" THEN [st EXCEPT !.in_text_body = FALSE]
        ELSE IF local = "p" /\ st.in_text_body /\ ~st.in_table_cell
        THEN IF st.in_paragraph /\ st.current_paragraph # <<>>
             THEN [st EXCEPT !.paragraphs = Append(st.paragraphs, st.current_paragraph),
                             !.current_paragraph = <<>>, !.in_paragraph = FALSE]
             ELSE [st EXCEPT !.in_paragraph = FALSE]
        ELSE IF local = "pPr" THEN [st EXCEPT !.in_ppr = FALSE]
        ELSE IF local = "r" /\ ~st.in_table_cell
        THEN IF st.in_run /\ st.current_run.text # <<>>
             THEN [st EXCEPT !.current_paragraph = Append(st.current_paragraph, st.current_run),
                             !.current_run = EmptyRun,
                             !.in_run = FALSE, !.in_rpr = FALSE]
             ELSE [st EXCEPT !.in_run = FALSE, !.in_rpr = FALSE]
        ELSE IF local = "rPr" THEN [st EXCEPT !.in_rpr = FALSE]
        ELSE IF local = "t" THEN [st EXCEPT !.in_text = FALSE]
        ELSE IF local = "tc"
        THEN [st EXCEPT !.table_row = Append(st.table_row, trim(st.cell_text)),
                        !.cell_text = <<>>, !.in_table_cell = FALSE]
        ELSE IF local = "tr"
        THEN [st EXCEPT !.table_rows = Append(st.table_rows, st.table_row),
                        !.table_row = <<>>, !.in_table_row = FALSE]
        ELSE IF local = "tbl"
        THEN [st EXCEPT !.tables = IF st.table_rows # <<>>
                                   THEN Append(st.tables, st.table_rows)
                                   ELSE st.tables,
                        !.table_rows = <<>>, !.in_table = FALSE]
        ELSE st

\* one turn of the loop on an event that neither ends nor fails the parse
ppt_on_event(st, ev) ==
    IF ev.type = "Start" THEN ppt_on_start(st, ev.name, ev.attrs)
    ELSE IF ev.type = "Empty" THEN ppt_on_empty(st, ev.name, ev.attrs)
    ELSE IF ev.type = "Text" THEN ppt_on_text(st, ev.text)
    ELSE IF ev.type = "End" THEN ppt_on_end(st, ev.name)
    ELSE st

MsgParseSlide == "Failed to parse slide XML: {e}"

\* extract_slide_content on the events of a part: Ok(SlideContent) at Eof,
\* the Conversion error at Err.
RECURSIVE ppt_extract_from(_, _)
ppt_extract_from(st, events) ==
    IF events = <<>> THEN Ok(SlideContent(st.shapes, st.tables))
    ELSE IF Head(events).type = "Eof" THEN Ok(SlideContent(st.shapes, st.tables))
    ELSE IF Head(events).type = "Err" THEN ConversionErr("powerpoint", MsgParseSlide)
    ELSE LET next == ppt_on_event(st, Head(events))
         IN  IF next = st THEN ppt_extract_from(st, Tail(events))
             ELSE ppt_extract_from(next, Tail(events))

extract_slide_content(events) == ppt_extract_from(ppt_locals, events)

\* render_paragraph: the runs of a paragraph, each with its emphasis
RECURSIVE render_paragraph(_)
render_paragraph(para) ==
    IF para = <<>> THEN <<>>
    ELSE ppt_format_run_text(Head(para).text, Head(para).bold, Head(para).italic)
         \o render_paragraph(Tail(para))

\* Vec<String>::join(sep)
RECURSIVE join(_, _)
join(strs, sep) ==
    IF strs = <<>> THEN <<>>
    ELSE IF Len(strs) = 1 THEN strs[1]
    ELSE strs[1] \o sep \o join(Tail(strs), sep)

\* join_paragraphs_inline
join_paragraphs_inline(paragraphs) ==
    join([k \in 1..Len(paragraphs) |-> render_paragraph(paragraphs[k])], <<" ">>)

(***************************************************************************)
(* The destination sink (writer: &mut dyn Write).  A sink takes the bytes  *)
(* it is given until it is full; the write that does not fit leaves the    *)
(* bytes that did fit and fails, and `?` returns that failure as           *)
(* Error::Io (error.rs, #[from] std::io::Error).  A run keeps the sink,    *)
(* and the error it has returned with, if any: nothing is done after it.   *)
(***************************************************************************)
Unlimited == [limited |-> FALSE, cap |-> 0]
Limited(n) == [limited |-> TRUE, cap |-> n]

MsgWrite == "write failed"
MsgRead == "read_to_string failed"
MsgZip == "invalid Zip archive"
MsgEntryNotFound == "Entry not found: {name}: {e}"

Running(sink) == [out |-> <<>>, sink |-> sink, res |-> Ok(<<>>)]

\* write!(writer, ...)?  /  writeln!(writer, ...)?
put(run, bytes) ==
    IF ~run.res.ok THEN run
    ELSE IF ~run.sink.limited \/ Len(run.out) + Len(bytes) <= run.sink.cap
    THEN [run EXCEPT !.out = run.out \o bytes]
    ELSE [run EXCEPT !.out = run.out \o SubSeq(bytes, 1, run.sink.cap - Len(run.out)),
                     !.res = IoErr(MsgWrite)]

\* return Err(e), by `?` or explicitly
fail(run, err) == IF ~run.res.ok THEN run ELSE [run EXCEPT !.res = err]

(***************************************************************************)
(* The zip container.  The input is either no zip archive at all, or its   *)
(* entries in archive order; an entry has a name and data, which either    *)
(* reads as a string (kept as the XML events it parses to) or does not.    *)
(* A name is a sequence of pieces, the fixed parts of the part names being *)
(* one piece each.                                                         *)
(***************************************************************************)
NotZip == [zip |-> FALSE, entries |-> <<>>]
Zip(entries) == [zip |-> TRUE, entries |-> entries]
Entry(name, data) == [name |-> name, data |-> data]
Readable(events) == [readable |-> TRUE, events |-> events]
Unreadable == [readable |-> FALSE, events |-> <<>>]

PSlide == "ppt/slides/slide"
PNotes == "ppt/notesSlides/notesSlide"
PXml == ".xml"
WordDocumentXml == <<"word/document.xml">>

\* archive.by_name(name), then file.read_to_string(&mut content)
read_entry_as(format, entries, name) ==
    IF \A k \in 1..Len(entries) : entries[k].name # name
    THEN ConversionErr(format, MsgEntryNotFound)
    ELSE LET e == entries[CHOOSE k \in 1..Len(entries) : entries[k].name = name]
         IN  IF e.data.readable THEN Ok(e.data.events) ELSE IoErr(MsgRead)

\* read_entry of powerpoint.rs
ppt_read_entry(entries, name) == read_entry_as("powerpoint", entries, name)

\* read_entry of word.rs, tagging a missing entry as the other converter does
word_read_entry_other_tag(entries, name) == read_entry_as("powerpoint", entries, name)

\* read_entry of word.rs
word_read_entry(entries, name) == read_entry_as("word", entries, name)

(***************************************************************************)
(* WordConverter::convert, word.rs.                                        *)
(***************************************************************************)
word_format_name == "word"

\* one turn of `for para in &paragraphs`
word_write_block(run, para, first) ==
    LET gap == IF first THEN <<>> ELSE <<NL>>
    IN  IF para.kind = "Heading"
        THEN put(run, gap \o Repeat(<<"#">>, para.level) \o <<" ">> \o para.text \o <<NL>>)
        ELSE IF para.kind = "Text"
        THEN IF para.text # <<>> THEN put(run, gap \o para.text \o <<NL>>) ELSE run
        ELSE IF para.kind = "ListItem"
        THEN put(run, <<"-", " ">> \o para.text \o <<NL>>)
        ELSE IF para.kind = "BlockQuote"
        THEN put(run, gap \o <<">", " ">> \o para.text \o <<NL>>)
        ELSE put(run, gap \o word_write_table(para.rows))

RECURSIVE word_write_blocks(_, _, _)
word_write_blocks(run, paragraphs, first) ==
    IF paragraphs = <<>> THEN run
    ELSE word_write_blocks(word_write_block(run, Head(paragraphs), first),
                           Tail(paragraphs), FALSE)

\* convert writing the blocks read before the reader fails
WordConverter_convert_streaming(input, sink) ==
    IF ~input.zip THEN fail(Running(sink), ConversionErr("word", MsgZip))
    ELSE LET document_xml == word_read_entry(input.entries, WordDocumentXml)
         IN  IF ~document_xml.ok THEN fail(Running(sink), document_xml)
             ELSE LET paragraphs == parse_document(document_xml.value)
                      read == SelectSeq(document_xml.value, LAMBDA e : e.type # "Err")
                  IN  IF ~paragraphs.ok
                      THEN fail(word_write_blocks(Running(sink),
                                                  parse_document(read).value, TRUE),
                                paragraphs)
                      ELSE word_write_blocks(Running(sink), paragraphs.value, TRUE)

WordConverter_convert(input, sink) ==
    IF ~input.zip THEN fail(Running(sink), ConversionErr("word", MsgZip))
    ELSE LET document_xml == word_read_entry(input.entries, WordDocumentXml)
         IN  IF ~document_xml.ok THEN fail(Running(sink), document_xml)
             ELSE LET paragraphs == parse_document(document_xml.value)
                  IN  IF ~paragraphs.ok THEN fail(Running(sink), paragraphs)
                      ELSE word_write_blocks(Running(sink), paragraphs.value, TRUE)

(***************************************************************************)
(* PowerPointConverter::convert, powerpoint.rs.                            *)
(***************************************************************************)
ppt_format_name == "powerpoint"

ends_with(s, suffix) ==
    Len(s) >= Len(suffix) /\ SubSeq(s, Len(s) - Len(suffix) + 1, Len(s)) = suffix

\* str::trim_start_matches / trim_end_matches: every repetition is removed
RECURSIVE trim_start_matches(_, _)
trim_start_matches(s, pat) ==
    IF starts_with(s, pat) THEN trim_start_matches(SubSeq(s, Len(pat) + 1, Len(s)), pat)
    ELSE s

RECURSIVE trim_end_matches(_, _)
trim_end_matches(s, pat) ==
    IF ends_with(s, pat) THEN trim_end_matches(SubSeq(s, 1, Len(s) - Len(pat)), pat)
    ELSE s

\* the names pushed to slide_names, in archive order
RECURSIVE ppt_slide_entries(_)
ppt_slide_entries(entries) ==
    IF entries = <<>> THEN <<>>
    ELSE (IF starts_with(Head(entries).name, <<PSlide>>)
             /\ ends_with(Head(entries).name, <<PXml>>)
          THEN <<Head(entries).name>> ELSE <<>>)
         \o ppt_slide_entries(Tail(entries))

\* the key of sort_by_key: .parse::<u32>().unwrap_or(0), as a numeral
ppt_sort_key(name) ==
    LET n == parse_unsigned(
                 trim_end_matches(trim_start_matches(name, <<PSlide>>), <<PXml>>), U32Max)
    IN  IF n.ok THEN n.numeral ELSE <<"0">>

\* slice::sort_by_key is stable: a name goes after the names of equal key
RECURSIVE ppt_insert_by_key(_, _)
ppt_insert_by_key(sorted, name) ==
    IF sorted = <<>> THEN <<name>>
    ELSE IF numeral_less(ppt_sort_key(name), ppt_sort_key(Head(sorted)))
    THEN <<name>> \o sorted
    ELSE <<Head(sorted)>> \o ppt_insert_by_key(Tail(sorted), name)

RECURSIVE ppt_sort_from(_, _)
ppt_sort_from(sorted, names) ==
    IF names = <<>> THEN sorted
    ELSE ppt_sort_from(ppt_insert_by_key(sorted, Head(names)), Tail(names))

ppt_slide_names(entries) == ppt_sort_from(<<>>, ppt_slide_entries(entries))

\* idx + 1 as {} formats it
RECURSIVE to_decimal(_)
to_decimal(n) ==
    IF n < 10 THEN <<Digits[n + 1]>>
    ELSE to_decimal(n \div 10) \o <<Digits[(n % 10) + 1]>>

StrSlideHeading == <<"#", " ", "S", "l", "i", "d", "e", " ">>
StrEmptySlide == <<"*", "E", "m", "p", "t", "y", " ", "s", "l", "i", "d", "e", "*">>
StrNotes == <<">", " ", "*", "*", "N", "o", "t", "e", "s", "*", "*", ":", " ">>
StrRule == <<"-", "-", "-">>

\* the paragraphs of a shape that is not a subtitle
RECURSIVE ppt_write_paragraphs(_, _, _)
ppt_write_paragraphs(run, paragraphs, has_bullets) ==
    IF paragraphs = <<>> THEN (IF has_bullets THEN put(run, <<NL>>) ELSE run)
    ELSE LET text == trim(render_paragraph(Head(paragraphs)))
         IN  ppt_write_paragraphs(
                 IF text = <<>> THEN run
                 ELSE IF has_bullets THEN put(run, <<"-", " ">> \o text \o <<NL>>)
                 ELSE put(run, text \o <<NL, NL>>),
                 Tail(paragraphs), has_bullets)

\* for shape in &content_shapes, a subtitle written as any other shape
RECURSIVE ppt_write_shapes_subtitle_as_body(_, _)
ppt_write_shapes_subtitle_as_body(run, shapes) ==
    IF shapes = <<>> THEN run
    ELSE ppt_write_shapes_subtitle_as_body(
             ppt_write_paragraphs(run, Head(shapes).paragraphs, Head(shapes).has_bullets),
             Tail(shapes))

\* for shape in &content_shapes
RECURSIVE ppt_write_shapes(_, _)
ppt_write_shapes(run, shapes) ==
    IF shapes = <<>> THEN run
    ELSE ppt_write_shapes(
             IF Head(shapes).is_subtitle
             THEN IF join_paragraphs_inline(Head(shapes).paragraphs) # <<>>
                  THEN put(run, <<"#", "#", " ">>
                                \o join_paragraphs_inline(Head(shapes).paragraphs)
                                \o <<NL, NL>>)
                  ELSE run
             ELSE ppt_write_paragraphs(run, Head(shapes).paragraphs, Head(shapes).has_bullets),
             Tail(shapes))

\* for table in &content.tables
RECURSIVE ppt_write_tables(_, _)
ppt_write_tables(run, tables) ==
    IF tables = <<>> THEN run
    ELSE ppt_write_tables(put(run, ppt_write_table(Head(tables)) \o <<NL>>), Tail(tables))

\* shapes[start..] filtered to those with paragraphs
RECURSIVE ppt_content_shapes(_)
ppt_content_shapes(shapes) ==
    IF shapes = <<>> THEN <<>>
    ELSE (IF Head(shapes).paragraphs # <<>> THEN <<Head(shapes)>> ELSE <<>>)
         \o ppt_content_shapes(Tail(shapes))

\* whether a title shape anywhere in the list gives the slide its heading
ppt_title_written_any(content) ==
    \E k \in 1..Len(content.shapes) : content.shapes[k].is_title

\* whether the slide's first shape gives its heading
ppt_title_written(content) == content.shapes # <<>> /\ content.shapes[1].is_title

\* one slide, the tables not looked at when the slide is found empty
ppt_write_slide_tables_unseen(run, content, idx) ==
    LET title_written == ppt_title_written(content)
        content_shapes ==
            ppt_content_shapes(IF title_written THEN Tail(content.shapes)
                               ELSE content.shapes)
        r1 == IF idx > 0 THEN put(run, <<NL>> \o StrRule \o <<NL, NL>>) ELSE run
        r2 == IF title_written
              THEN put(r1, <<"#", " ">>
                           \o join_paragraphs_inline(content.shapes[1].paragraphs)
                           \o <<NL, NL>>)
              ELSE put(r1, StrSlideHeading \o to_decimal(idx + 1) \o <<NL, NL>>)
        r3 == IF content_shapes = <<>> /\ ~title_written
              THEN put(r2, StrEmptySlide \o <<NL>>) ELSE r2
    IN  ppt_write_tables(ppt_write_shapes(r3, content_shapes), content.tables)

\* one slide, the separator written before every slide, the first included
ppt_write_slide_rule_always(run, content, idx) ==
    LET title_written == ppt_title_written(content)
        content_shapes ==
            ppt_content_shapes(IF title_written THEN Tail(content.shapes)
                               ELSE content.shapes)
        r1 == put(run, <<NL>> \o StrRule \o <<NL, NL>>)
        r2 == IF title_written
              THEN put(r1, <<"#", " ">>
                           \o join_paragraphs_inline(content.shapes[1].paragraphs)
                           \o <<NL, NL>>)
              ELSE put(r1, StrSlideHeading \o to_decimal(idx + 1) \o <<NL, NL>>)
        r3 == IF content_shapes = <<>> /\ content.tables = <<>> /\ ~title_written
              THEN put(r2, StrEmptySlide \o <<NL>>) ELSE r2
    IN  ppt_write_tables(ppt_write_shapes(r3, content_shapes), content.tables)

\* one slide, the tables written before the shapes
ppt_write_slide_tables_first(run, content, idx) ==
    LET title_written == ppt_title_written(content)
        content_shapes ==
            ppt_content_shapes(IF title_written THEN Tail(content.shapes)
                               ELSE content.shapes)
        r1 == IF idx > 0 THEN put(run, <<NL>> \o StrRule \o <<NL, NL>>) ELSE run
        r2 == IF title_written
              THEN put(r1, <<"#", " ">>
                           \o join_paragraphs_inline(content.shapes[1].paragraphs)
                           \o <<NL, NL>>)
              ELSE put(r1, StrSlideHeading \o to_decimal(idx + 1) \o <<NL, NL>>)
        r3 == IF content_shapes = <<>> /\ content.tables = <<>> /\ ~title_written
              THEN put(r2, StrEmptySlide \o <<NL>>) ELSE r2
    IN  ppt_write_shapes(ppt_write_tables(r3, content.tables), content_shapes)

\* the separator, the heading, the shapes and the tables of one slide
ppt_write_slide(run, content, idx) ==
    LET title_written == ppt_title_written(content)
        content_shapes ==
            ppt_content_shapes(IF title_written THEN Tail(content.shapes)
                               ELSE content.shapes)
        r1 == IF idx > 0 THEN put(run, <<NL>> \o StrRule \o <<NL, NL>>) ELSE run
        r2 == IF title_written
              THEN put(r1, <<"#", " ">>
                           \o join_paragraphs_inline(content.shapes[1].paragraphs)
                           \o <<NL, NL>>)
              ELSE put(r1, StrSlideHeading \o to_decimal(idx + 1) \o <<NL, NL>>)
        r3 == IF content_shapes = <<>> /\ content.tables = <<>> /\ ~title_written
              THEN put(r2, StrEmptySlide \o <<NL>>) ELSE r2
    IN  ppt_write_tables(ppt_write_shapes(r3, content_shapes), content.tables)

\* the notes of the first slide looked up for every slide
ppt_notes_name_of_first(slide_name) == <<PNotes, "1", PXml>>

\* str::replace("ppt/slides/slide", "ppt/notesSlides/notesSlide")
ppt_notes_name(slide_name) ==
    [k \in 1..Len(slide_name) |-> IF slide_name[k] = PSlide THEN PNotes ELSE slide_name[k]]

\* the rendered, trimmed paragraphs of all shapes that are not empty, digits
\* or not
RECURSIVE ppt_notes_lines_with_digits(_)
ppt_notes_lines_with_digits(paragraphs) ==
    IF paragraphs = <<>> THEN <<>>
    ELSE LET t == trim(render_paragraph(Head(paragraphs)))
         IN  (IF t # <<>> THEN <<t>> ELSE <<>>)
             \o ppt_notes_lines_with_digits(Tail(paragraphs))

\* the rendered, trimmed paragraphs of all shapes that are neither empty
\* nor digits only
RECURSIVE ppt_notes_lines(_)
ppt_notes_lines(paragraphs) ==
    IF paragraphs = <<>> THEN <<>>
    ELSE LET t == trim(render_paragraph(Head(paragraphs)))
         IN  (IF t # <<>> /\ ~(\A i \in 1..Len(t) : IsDigit(t[i])) THEN <<t>> ELSE <<>>)
             \o ppt_notes_lines(Tail(paragraphs))

ppt_notes_text(content) ==
    join(ppt_notes_lines(Concat([k \in 1..Len(content.shapes) |->
                                     content.shapes[k].paragraphs])),
         <<NL>>)

\* the speaker notes of one slide
ppt_write_notes(run, entries, slide_name) ==
    LET notes_xml == ppt_read_entry(entries, ppt_notes_name(slide_name))
    IN  IF ~notes_xml.ok THEN run
        ELSE LET notes_content == extract_slide_content(notes_xml.value)
             IN  IF ~notes_content.ok THEN fail(run, notes_content)
                 ELSE IF ppt_notes_text(notes_content.value) # <<>>
                 THEN put(run, StrNotes \o ppt_notes_text(notes_content.value) \o <<NL, NL>>)
                 ELSE run

\* one turn of the loop, the separator written before the part is read
ppt_convert_slide_rule_first(run, entries, slide_name, idx) ==
    LET r0 == IF idx > 0 THEN put(run, <<NL>> \o StrRule \o <<NL, NL>>) ELSE run
        xml == ppt_read_entry(entries, slide_name)
    IN  IF ~xml.ok THEN fail(r0, xml)
        ELSE LET content == extract_slide_content(xml.value)
             IN  IF ~content.ok THEN fail(r0, content)
                 ELSE ppt_write_notes(ppt_write_slide(run, content.value, idx),
                                      entries, slide_name)

\* one turn of the loop, the slide numbered by the integer in its part name
ppt_convert_slide_numbered_by_name(run, entries, slide_name, idx) ==
    LET xml == ppt_read_entry(entries, slide_name)
        key == ppt_sort_key(slide_name)
        number == DigitValue(key[Len(key)])
                  + (IF Len(key) > 1 THEN 10 * DigitValue(key[Len(key) - 1]) ELSE 0)
    IN  IF ~xml.ok THEN fail(run, xml)
        ELSE LET content == extract_slide_content(xml.value)
             IN  IF ~content.ok THEN fail(run, content)
                 ELSE ppt_write_notes(ppt_write_slide(run, content.value, number - 1),
                                      entries, slide_name)

\* one turn of `for (idx, slide_name) in slide_names.iter().enumerate()`
ppt_convert_slide(run, entries, slide_name, idx) ==
    LET xml == ppt_read_entry(entries, slide_name)
    IN  IF ~xml.ok THEN fail(run, xml)
        ELSE LET content == extract_slide_content(xml.value)
             IN  IF ~content.ok THEN fail(run, content)
                 ELSE ppt_write_notes(ppt_write_slide(run, content.value, idx),
                                      entries, slide_name)

RECURSIVE ppt_convert_slides(_, _, _, _)
ppt_convert_slides(run, entries, slide_names, idx) ==
    IF slide_names = <<>> \/ ~run.res.ok THEN run
    ELSE ppt_convert_slides(ppt_convert_slide(run, entries, Head(slide_names), idx),
                            entries, Tail(slide_names), idx + 1)

\* convert failing on a container without a slide part
PowerPointConverter_convert_requiring_slide(input, sink) ==
    IF ~input.zip THEN fail(Running(sink), ConversionErr("powerpoint", MsgZip))
    ELSE IF ppt_slide_names(input.entries) = <<>>
    THEN fail(Running(sink), ConversionErr("powerpoint", MsgEntryNotFound))
    ELSE ppt_convert_slides(Running(sink), input.entries,
                            ppt_slide_names(input.entries), 0)

PowerPointConverter_convert(input, sink) ==
    IF ~input.zip THEN fail(Running(sink), ConversionErr("powerpoint", MsgZip))
    ELSE ppt_convert_slides(Running(sink), input.entries,
                            ppt_slide_names(input.entries), 0)

(***************************************************************************)
(* converter.rs: a converter is a value without fields (struct             *)
(* WordConverter; struct PowerPointConverter;) and convert takes &self, so *)
(* a call starts from its own locals and leaves nothing behind.            *)
(***************************************************************************)
convert(conv, input, sink) ==
    IF conv = "WordConverter" THEN WordConverter_convert(input, sink)
    ELSE PowerPointConverter_convert(input, sink)

\* a later call that goes on writing after the bytes of the earlier call
convert_again_appending(conv, input, sink, out, res) ==
    [convert(conv, input, sink) EXCEPT !.out = out \o convert(conv, input, sink).out]

\* a later call on the same converter: the bytes written and the value
\* returned by the earlier call are nowhere for it to read
convert_again(conv, input, sink, out, res) == convert(conv, input, sink)

(***************************************************************************)
(* structured.rs: a format-agnostic value written as markdown.  A value is *)
(* Null, a String or an Object, a list of key-value pairs in insertion     *)
(* order; the other primitives are written as their strings are, and       *)
(* arrays are left out.                                                    *)
(***************************************************************************)
Null == [kind |-> "Null", str |-> <<>>, entries |-> <<>>]
String(s) == [kind |-> "String", str |-> s, entries |-> <<>>]
Object(entries) == [kind |-> "Object", str |-> <<>>, entries |-> entries]
KeyValue(key, value) == [key |-> key, value |-> value]

is_primitive(value) == value.kind \in {"Null", "String"}

display_primitive(value) == IF value.kind = "String" THEN value.str ELSE <<>>

escape_pipe(s) == replace_pipe(s)

\* level = depth, the hashes not capped
write_heading_uncapped(run, text, depth) ==
    put(put(run, Repeat(<<"#">>, depth) \o <<" ">> \o text \o <<NL>>), <<NL>>)

write_heading(run, text, depth) ==
    put(put(run, Repeat(<<"#">>, IF depth < 6 THEN depth ELSE 6)
                 \o <<" ">> \o text \o <<NL>>),
        <<NL>>)

RECURSIVE write_kv_rows(_, _)
write_kv_rows(run, entries) ==
    IF entries = <<>> THEN run
    ELSE write_kv_rows(
             put(run, <<"|", " ">> \o escape_pipe(Head(entries).key) \o <<" ", "|", " ">>
                      \o escape_pipe(display_primitive(Head(entries).value))
                      \o <<" ", "|", NL>>),
             Tail(entries))

write_kv_table(run, entries) ==
    write_kv_rows(
        put(put(run, <<"|", " ", "K", "e", "y", " ", "|", " ",
                       "V", "a", "l", "u", "e", " ", "|", NL>>),
            <<"|", "-", "-", "-", "|", "-", "-", "-", "|", NL>>),
        entries)

\* the end of the primitives that start at entry i
RECURSIVE primitives_end(_, _)
primitives_end(entries, i) ==
    IF i <= Len(entries) /\ is_primitive(entries[i].value)
    THEN primitives_end(entries, i + 1) ELSE i

RECURSIVE write_value(_, _, _)
RECURSIVE write_object_from(_, _, _, _)

\* while i < entries.len()
write_object_from(run, entries, i, depth) ==
    IF i > Len(entries) \/ ~run.res.ok THEN run
    ELSE IF is_primitive(entries[i].value)
    THEN write_object_from(
             put(write_kv_table(run, SubSeq(entries, i, primitives_end(entries, i) - 1)),
                 <<NL>>),
             entries, primitives_end(entries, i), depth)
    ELSE write_object_from(
             write_value(write_heading(run, entries[i].key, depth),
                         entries[i].value, depth + 1),
             entries, i + 1, depth)

write_object(run, entries, depth) == write_object_from(run, entries, 1, depth)

write_value(run, value, depth) ==
    IF ~run.res.ok THEN run
    ELSE IF value.kind = "Null" THEN put(run, <<NL>>)
    ELSE IF value.kind = "String" THEN put(run, display_primitive(value) \o <<NL>>)
    ELSE write_object(run, value.entries, depth)

write_value_as_markdown(run, value) == write_value(run, value, 1)

(***************************************************************************)
(* Documents, and the XML a producer writes for them.  A word document is  *)
(* a list of blocks: paragraphs with an optional style, an optional        *)
(* numbering marker and a text (none for a paragraph without runs), and    *)
(* tables as lists of rows of cell texts.  A slide is a list of shapes,    *)
(* each with a placeholder type and paragraphs with an optional bullet     *)
(* marker, a list of tables, and possibly a notes part with shapes of its  *)
(* own.  The events are the ones quick_xml reads from such XML.            *)
(***************************************************************************)
NoNotes == [present |-> FALSE, shapes |-> <<>>]
Notes(shapes) == [present |-> TRUE, shapes |-> shapes]

NoDoc == [kind |-> "none", blocks |-> <<>>, shapes |-> <<>>, tables |-> <<>>,
          notes |-> NoNotes]
WordDoc(blocks) == [kind |-> "word", blocks |-> blocks, shapes |-> <<>>,
                    tables |-> <<>>, notes |-> NoNotes]
Slide(shapes, tables, notes) ==
    [kind |-> "slide", blocks |-> <<>>, shapes |-> shapes, tables |-> tables,
     notes |-> notes]

ParaDesc(style, numbered, text) ==
    [kind |-> "p", style |-> style, numbered |-> numbered, text |-> text, rows |-> <<>>]
TableDesc(rows) ==
    [kind |-> "tbl", style |-> <<>>, numbered |-> FALSE, text |-> <<>>, rows |-> rows]

ShapeDesc(type, paras) == [type |-> type, paras |-> paras]
SlidePara(marker, text) == [marker |-> marker, text |-> text]

Wx(local) == <<"w", local>>
Ax(local) == <<"a", local>>
Px(local) == <<"p", local>>

\* <w:r><w:t>text</w:t></w:r>, nothing for no text
WordRunXml(text) ==
    IF text = <<>> THEN <<>>
    ELSE <<StartEv(Wx("r"), <<>>), StartEv(Wx("t"), <<>>), TextEv(text),
           EndEv(Wx("t")), EndEv(Wx("r"))>>

\* <w:pPr><w:pStyle w:val=../><w:numPr><w:ilvl/><w:numId/></w:numPr></w:pPr>
WordPPrXml(style, numbered) ==
    IF style = <<>> /\ ~numbered THEN <<>>
    ELSE <<StartEv(Wx("pPr"), <<>>)>>
         \o (IF style = <<>> THEN <<>>
             ELSE <<EmptyEv(Wx("pStyle"), <<Attr(<<"w", "val">>, style)>>)>>)
         \o (IF numbered
             THEN <<StartEv(Wx("numPr"), <<>>), EmptyEv(Wx("ilvl"), <<>>),
                    EmptyEv(Wx("numId"), <<>>), EndEv(Wx("numPr"))>>
             ELSE <<>>)
         \o <<EndEv(Wx("pPr"))>>

WordParaXml(style, numbered, text) ==
    <<StartEv(Wx("p"), <<>>)>> \o WordPPrXml(style, numbered) \o WordRunXml(text)
    \o <<EndEv(Wx("p"))>>

WordCellXml(text) ==
    <<StartEv(Wx("tc"), <<>>)>> \o WordParaXml(<<>>, FALSE, text) \o <<EndEv(Wx("tc"))>>

WordRowXml(row) ==
    <<StartEv(Wx("tr"), <<>>)>>
    \o Concat([k \in 1..Len(row) |-> WordCellXml(row[k])])
    \o <<EndEv(Wx("tr"))>>

WordTableXml(rows) ==
    <<StartEv(Wx("tbl"), <<>>)>>
    \o Concat([k \in 1..Len(rows) |-> WordRowXml(rows[k])])
    \o <<EndEv(Wx("tbl"))>>

WordBlockXml(b) ==
    IF b.kind = "tbl" THEN WordTableXml(b.rows)
    ELSE WordParaXml(b.style, b.numbered, b.text)

\* word/document.xml
WordXml(blocks) ==
    <<StartEv(Wx("document"), <<>>), StartEv(Wx("body"), <<>>)>>
    \o Concat([k \in 1..Len(blocks) |-> WordBlockXml(blocks[k])])
    \o <<EndEv(Wx("body")), EndEv(Wx("document")), EofEv>>

\* <a:p><a:pPr><a:buChar/></a:pPr><a:r><a:t>text</a:t></a:r></a:p>
SlideParaXml(para) ==
    <<StartEv(Ax("p"), <<>>)>>
    \o (IF para.marker = "" THEN <<>>
        ELSE <<StartEv(Ax("pPr"), <<>>), EmptyEv(Ax(para.marker), <<>>),
               EndEv(Ax("pPr"))>>)
    \o (IF para.text = <<>> THEN <<>>
        ELSE <<StartEv(Ax("r"), <<>>), StartEv(Ax("t"), <<>>), TextEv(para.text),
               EndEv(Ax("t")), EndEv(Ax("r"))>>)
    \o <<EndEv(Ax("p"))>>

\* <p:sp><p:nvSpPr><p:nvPr><p:ph type=../></p:nvPr></p:nvSpPr><p:txBody>..
SlideShapeXml(shape) ==
    <<StartEv(Px("sp"), <<>>), EmptyEv(Px("ph"), <<Attr(<<"type">>, shape.type)>>),
      StartEv(Px("txBody"), <<>>)>>
    \o Concat([k \in 1..Len(shape.paras) |-> SlideParaXml(shape.paras[k])])
    \o <<EndEv(Px("txBody")), EndEv(Px("sp"))>>

SlideCellXml(text) ==
    <<StartEv(Ax("tc"), <<>>), StartEv(Ax("txBody"), <<>>)>>
    \o SlideParaXml(SlidePara("", text))
    \o <<EndEv(Ax("txBody")), EndEv(Ax("tc"))>>

SlideRowXml(row) ==
    <<StartEv(Ax("tr"), <<>>)>>
    \o Concat([k \in 1..Len(row) |-> SlideCellXml(row[k])])
    \o <<EndEv(Ax("tr"))>>

\* <p:graphicFrame><a:graphic><a:graphicData><a:tbl>..
SlideTableXml(rows) ==
    <<StartEv(Px("graphicFrame"), <<>>), StartEv(Ax("tbl"), <<>>)>>
    \o Concat([k \in 1..Len(rows) |-> SlideRowXml(rows[k])])
    \o <<EndEv(Ax("tbl")), EndEv(Px("graphicFrame"))>>

\* ppt/slides/slideN.xml and ppt/notesSlides/notesSlideN.xml
SlideXml(shapes, tables) ==
    <<StartEv(Px("sld"), <<>>)>>
    \o Concat([k \in 1..Len(shapes) |-> SlideShapeXml(shapes[k])])
    \o Concat([k \in 1..Len(tables) |-> SlideTableXml(tables[k])])
    \o <<EndEv(Px("sld")), EofEv>>

\* a slide part whose graphic frames stand before its shapes
SlideXmlTablesFirst(shapes, tables) ==
    <<StartEv(Px("sld"), <<>>)>>
    \o Concat([k \in 1..Len(tables) |-> SlideTableXml(tables[k])])
    \o Concat([k \in 1..Len(shapes) |-> SlideShapeXml(shapes[k])])
    \o <<EndEv(Px("sld")), EofEv>>

TablesFirst(slide) == [slide EXCEPT !.kind = "slideTablesFirst"]

\* the .docx or the one-slide .pptx of a document
Package(doc) ==
    IF doc.kind = "word"
    THEN Zip(<<Entry(WordDocumentXml, Readable(WordXml(doc.blocks)))>>)
    ELSE Zip(<<Entry(<<PSlide, "1", PXml>>,
                     Readable(IF doc.kind = "slideTablesFirst"
                              THEN SlideXmlTablesFirst(doc.shapes, doc.tables)
                              ELSE SlideXml(doc.shapes, doc.tables)))>>
             \o (IF doc.notes.present
                 THEN <<Entry(<<PNotes, "1", PXml>>,
                              Readable(SlideXml(doc.notes.shapes, <<>>)))>>
                 ELSE <<>>))

(***************************************************************************)
(* Inputs of the two pure functions.                                       *)
(***************************************************************************)
TextChars == {"a", "*", " "}
Texts == SeqsUpTo(TextChars, MaxTextLen)

CellValues == {<<"-", "-", "-">>, <<"|", "\\">>}
Rows == SeqsUpTo(CellValues, MaxCols)
Tables == SeqsUpTo(Rows, MaxRows)

FmtIdle ==
    /\ f_pc = "idle" /\ f_text = <<>> /\ f_bold = FALSE /\ f_italic = FALSE
    /\ f_word = <<>> /\ f_ppt = <<>>

TblIdle == t_pc = "idle" /\ t_rows = <<>> /\ t_word = <<>> /\ t_ppt = <<>>

WbIdle ==
    /\ wb = word_locals /\ w_stack = <<>> /\ w_state = "idle"
    /\ w_n = 0

CvIdle ==
    /\ cv_pc = "idle" /\ cv_conv = "none" /\ cv_input = NotZip
    /\ cv_sink = Unlimited /\ cv_out = <<>> /\ cv_res = Ok(<<>>)
    /\ cv_doc = NoDoc
    /\ cv_out2 = <<>> /\ cv_res2 = Ok(<<>>)

SdIdle == sd_pc = "idle" /\ sd_value = Null /\ sd_out = <<>>

PsIdle ==
    /\ ps_kind = "none" /\ ps_tree = <<>> /\ ps_events = <<>> /\ ps_n = 0
    /\ ps_wb = word_locals /\ ps_sb = ppt_locals /\ ps_state = "idle"

(***************************************************************************)
(* SpecFmt: one call of format_run_text in each converter.                 *)
(***************************************************************************)
FmtInit ==
    /\ f_pc = "start"
    /\ f_text \in Texts
    /\ f_bold \in BOOLEAN
    /\ f_italic \in BOOLEAN
    /\ f_word = <<>>
    /\ f_ppt = <<>>
    /\ TblIdle /\ WbIdle /\ CvIdle /\ SdIdle /\ PsIdle

FormatRun ==
    /\ f_pc = "start"
    /\ f_word' = word_format_run_text(f_text, f_bold, f_italic)
    /\ f_ppt' = ppt_format_run_text(f_text, f_bold, f_italic)
    /\ f_pc' = "done"
    /\ UNCHANGED <<f_text, f_bold, f_italic, tbl_vars, wb_vars, cv_vars, sd_vars, ps_vars>>

FmtNext == FormatRun

SpecFmt == FmtInit /\ [][FmtNext]_vars

(***************************************************************************)
(* SpecTable: one call of write_table in each converter, on an unbounded   *)
(* sink.                                                                   *)
(***************************************************************************)
TblInit ==
    /\ t_pc = "start"
    /\ t_rows \in Tables
    /\ t_word = <<>>
    /\ t_ppt = <<>>
    /\ FmtIdle /\ WbIdle /\ CvIdle /\ SdIdle /\ PsIdle

WriteTable ==
    /\ t_pc = "start"
    /\ t_word' = word_write_table(t_rows)
    /\ t_ppt' = ppt_write_table(t_rows)
    /\ t_pc' = "done"
    /\ UNCHANGED <<t_rows, fmt_vars, wb_vars, cv_vars, sd_vars, ps_vars>>

TblNext == WriteTable

SpecTable == TblInit /\ [][TblNext]_vars

(***************************************************************************)
(* SpecWordBuilder: parse_document reading a part event by event.  The     *)
(* reader yields the start, self-closing, text and end events of a         *)
(* well-nested document (an end tag closes the innermost open element),    *)
(* and may at any point report a syntax error or the end of input.         *)
(***************************************************************************)
W(local) == <<"w", local>>

WordStartNames == {W("p"), W("r"), W("tbl"), W("tr"), W("tc"), W("pPr")}
WordEmptyNames == {W("b"), W("i"), W("numPr"), W("ilvl"), W("p"), W("tab")}

StyleHeading2 == <<"H", "e", "a", "d", "i", "n", "g", "2">>
StyleQuote == <<"Q", "u", "o", "t", "e">>

StyleHeading7 == <<"h", "e", "a", "d", "i", "n", "g", "7">>
StyleTitre6 == <<"T", "I", "T", "R", "E", "6">>

WordStyleAttrs ==
    {<<Attr(<<"w", "val">>, StyleHeading2)>>,
     <<Attr(<<"val">>, StyleQuote)>>,
     <<Attr(<<"w", "other">>, StyleHeading2)>>,
     <<Attr(<<"w", "val">>, StyleHeading7)>>,
     <<Attr(<<"w", "val">>, StyleTitre6)>>}

WordTexts == {<<"a">>, <<" ">>}

WbInit ==
    /\ wb = word_locals
    /\ w_stack = <<>>
    /\ w_state = "reading"
    /\ w_n = 0
    /\ FmtIdle /\ TblIdle /\ CvIdle /\ SdIdle /\ PsIdle

WbCanRead == w_state = "reading" /\ w_n < MaxEvents

WbStart ==
    /\ WbCanRead
    /\ \E name \in WordStartNames :
           /\ wb' = word_on_event(wb, StartEv(name, <<>>))
           /\ w_stack' = Append(w_stack, name)
    /\ w_n' = w_n + 1
    /\ UNCHANGED <<w_state, fmt_vars, tbl_vars, cv_vars, sd_vars, ps_vars>>

WbEmpty ==
    /\ WbCanRead
    /\ \E ev \in {EmptyEv(name, <<>>) : name \in WordEmptyNames}
                 \cup {EmptyEv(W("pStyle"), attrs) : attrs \in WordStyleAttrs} :
           wb' = word_on_event(wb, ev)
    /\ w_n' = w_n + 1
    /\ UNCHANGED <<w_stack, w_state, fmt_vars, tbl_vars, cv_vars, sd_vars, ps_vars>>

WbText ==
    /\ WbCanRead
    /\ \E text \in WordTexts : wb' = word_on_event(wb, TextEv(text))
    /\ w_n' = w_n + 1
    /\ UNCHANGED <<w_stack, w_state, fmt_vars, tbl_vars, cv_vars, sd_vars, ps_vars>>

WbEnd ==
    /\ WbCanRead
    /\ w_stack # <<>>
    /\ wb' = word_on_event(wb, EndEv(w_stack[Len(w_stack)]))
    /\ w_stack' = SubSeq(w_stack, 1, Len(w_stack) - 1)
    /\ w_n' = w_n + 1
    /\ UNCHANGED <<w_state, fmt_vars, tbl_vars, cv_vars, sd_vars, ps_vars>>

WbOther ==
    /\ WbCanRead
    /\ wb' = word_on_event(wb, OtherEv)
    /\ w_n' = w_n + 1
    /\ UNCHANGED <<w_stack, w_state, fmt_vars, tbl_vars, cv_vars, sd_vars, ps_vars>>

WbEof ==
    /\ w_state = "reading"
    /\ w_state' = "eof"
    /\ UNCHANGED <<wb, w_stack, w_n, fmt_vars, tbl_vars, cv_vars, sd_vars, ps_vars>>

WbErr ==
    /\ w_state = "reading"
    /\ w_state' = "err"
    /\ UNCHANGED <<wb, w_stack, w_n, fmt_vars, tbl_vars, cv_vars, sd_vars, ps_vars>>

WbNext == WbStart \/ WbEmpty \/ WbText \/ WbEnd \/ WbOther \/ WbEof \/ WbErr

SpecWordBuilder == WbInit /\ [][WbNext]_vars

(***************************************************************************)
(* SpecConvert: one of the two converters run once on an input.  An input  *)
(* is either no zip archive, or an archive of up to MaxEntries entries of  *)
(* different names; the data of an entry is unreadable or one of a few     *)
(* XML documents, well-formed or not.  The sink takes everything or fills  *)
(* up after SinkCap bytes.                                                 *)
(***************************************************************************)
A(local) == <<"a", local>>
P(local) == <<"p", local>>

\* <p:sp><p:nvSpPr><p:nvPr><p:ph type=../></p:nvPr></p:nvSpPr>
\*   <p:txBody><a:p><a:r><a:t>text</a:t></a:r></a:p></p:txBody></p:sp>
ShapeXml(type, text) ==
    <<StartEv(P("sp"), <<>>), EmptyEv(P("ph"), <<Attr(<<"type">>, type)>>),
      StartEv(P("txBody"), <<>>), StartEv(A("p"), <<>>), StartEv(A("r"), <<>>),
      StartEv(A("t"), <<>>), TextEv(text), EndEv(A("t")), EndEv(A("r")),
      EndEv(A("p")), EndEv(P("txBody")), EndEv(P("sp"))>>

DocTitle == ShapeXml("title", <<"T">>) \o <<EofEv>>
DocBodyThenTitle ==
    ShapeXml("body", <<"b">>) \o ShapeXml("title", <<"U">>) \o <<EofEv>>
DocEmpty == <<EofEv>>
\* a shape, then a second one that the reader fails in
DocMalformed == ShapeXml("body", <<"m">>) \o <<StartEv(P("sp"), <<>>), ErrEv>>

EntryData == {Readable(DocTitle), Readable(DocBodyThenTitle), Readable(DocEmpty),
              Readable(DocMalformed), Unreadable}

EntryNames ==
    {<<PSlide, "1", PXml>>, <<PSlide, "2", PXml>>, <<PSlide, "1", "0", PXml>>,
     <<PSlide, "a", PXml>>, <<PSlide, "2", PXml, PXml>>,
     <<PNotes, "1", PXml>>, WordDocumentXml}

Archives ==
    {Zip(es) : es \in {s \in SeqsUpTo(EntryNames \X EntryData, MaxEntries) :
                           \A i, j \in 1..Len(s) : i # j => s[i][1] # s[j][1]}}

\* two slides, the first with notes, every part well-formed
NotesArchives ==
    {Zip(<<Entry(<<PSlide, "1", PXml>>, Readable(d1)),
           Entry(<<PNotes, "1", PXml>>, Readable(n)),
           Entry(<<PSlide, "2", PXml>>, Readable(d2))>>) :
         d1 \in {DocTitle, DocBodyThenTitle, DocEmpty},
         n \in {DocTitle, DocBodyThenTitle, DocEmpty},
         d2 \in {DocTitle, DocBodyThenTitle, DocEmpty}}

Inputs ==
    {NotZip} \cup
    {Zip([k \in 1..Len(a.entries) |-> Entry(a.entries[k][1], a.entries[k][2])]) :
         a \in Archives}
    \cup NotesArchives

Sinks == {Unlimited, Limited(SinkCap)}

CvInit ==
    /\ cv_pc = "start" /\ cv_conv = "none"
    /\ cv_input \in Inputs
    /\ cv_sink \in Sinks
    /\ cv_doc = NoDoc
    /\ cv_out = <<>> /\ cv_res = Ok(<<>>)
    /\ cv_out2 = <<>> /\ cv_res2 = Ok(<<>>)
    /\ FmtIdle /\ TblIdle /\ WbIdle /\ SdIdle /\ PsIdle

ConvertWord ==
    /\ cv_pc = "start"
    /\ cv_out' = WordConverter_convert(cv_input, cv_sink).out
    /\ cv_res' = WordConverter_convert(cv_input, cv_sink).res
    /\ cv_conv' = "WordConverter"
    /\ cv_pc' = "done"
    /\ UNCHANGED <<cv_input, cv_sink, cv_doc, cv_out2, cv_res2,
                   fmt_vars, tbl_vars, wb_vars, sd_vars, ps_vars>>

ConvertPowerPoint ==
    /\ cv_pc = "start"
    /\ cv_out' = PowerPointConverter_convert(cv_input, cv_sink).out
    /\ cv_res' = PowerPointConverter_convert(cv_input, cv_sink).res
    /\ cv_conv' = "PowerPointConverter"
    /\ cv_pc' = "done"
    /\ UNCHANGED <<cv_input, cv_sink, cv_doc, cv_out2, cv_res2,
                   fmt_vars, tbl_vars, wb_vars, sd_vars, ps_vars>>

\* the converter that ran is called once more: the same input, a new sink
ConvertAgain ==
    /\ cv_pc = "done"
    /\ cv_out2' = convert_again(cv_conv, cv_input, cv_sink, cv_out, cv_res).out
    /\ cv_res2' = convert_again(cv_conv, cv_input, cv_sink, cv_out, cv_res).res
    /\ cv_pc' = "twice"
    /\ UNCHANGED <<cv_conv, cv_input, cv_sink, cv_out, cv_res, cv_doc,
                   fmt_vars, tbl_vars, wb_vars, sd_vars, ps_vars>>

CvNext == ConvertWord \/ ConvertPowerPoint \/ ConvertAgain

SpecConvert == CvInit /\ [][CvNext]_vars

(***************************************************************************)
(* SpecRender: one of the two converters run once on the package of a      *)
(* document, with a sink that takes everything.  The word documents have   *)
(* up to MaxBlocks blocks; the slides have a shape of up to MaxParas       *)
(* paragraphs, alone or after a title shape, or in the notes of a title    *)
(* slide, or they have a table after at most one shape.                    *)
(***************************************************************************)
StyleHeading1 == <<"h", "e", "a", "d", "i", "n", "g", "1">>

\* a table row without cells, and one with the cell 'c'
NoCells == <<>>
OneCell == << <<"c">> >>

WordBlockDescs ==
    {ParaDesc(style, numbered, text) :
         style \in {<<>>, StyleHeading1, StyleQuote}, numbered \in BOOLEAN,
         text \in {<<>>, <<"a">>}}
    \cup {TableDesc(rows) : rows \in {<<>>, <<NoCells>>, <<OneCell>>}}

WordDocs == {WordDoc(blocks) : blocks \in SeqsUpTo(WordBlockDescs, MaxBlocks)}

SlideParas ==
    {SlidePara("", text) : text \in {<<"x">>, <<"3">>, <<" ">>, <<" ", "y">>}}
    \cup {SlidePara(marker, <<"x">>) : marker \in {"buChar", "buAutoNum", "buFont"}}
    \cup {SlidePara("buChar", <<" ">>), SlidePara("buChar", <<>>)}

SlideShapes ==
    {ShapeDesc(type, paras) :
         type \in {"body", "subTitle", "title"}, paras \in SeqsUpTo(SlideParas, MaxParas)}

TitleShape == ShapeDesc("title", <<SlidePara("", <<"T">>)>>)
BodyShape == ShapeDesc("body", <<SlidePara("", <<"x">>)>>)
BulletShape == ShapeDesc("body", <<SlidePara("buChar", <<"x">>)>>)

SlideTables == {<<>>, <<NoCells>>, <<NoCells, NoCells>>, <<OneCell>>}

SlideDocs ==
    {Slide(pre \o <<s>>, <<>>, NoNotes) :
         pre \in {<<>>, <<TitleShape>>, <<BodyShape>>, <<BulletShape>>}, s \in SlideShapes}
    \cup {Slide(<<TitleShape>>, <<>>, Notes(<<s>>)) : s \in SlideShapes}
    \cup {Slide(<<TitleShape>>, <<>>, Notes(<<BodyShape, s>>)) : s \in SlideShapes}
    \cup {Slide(pre, <<t>> \o post, NoNotes) :
              pre \in {<<>>, <<TitleShape>>, <<BodyShape>>}, t \in SlideTables,
              post \in {<<>>, << <<OneCell>> >>}}

\* slides with shapes, tables and notes together, the tables after the
\* shapes in the part or before them: up to two shapes with one table, and
\* at most one shape with two tables
RowC == << <<"c">> >>
RowD == << <<"d">> >>

OrderNotes == {NoNotes, Notes(<<BodyShape>>), Notes(<<BodyShape, BulletShape>>)}

OrderDocs ==
    {Slide(shapes, << <<RowC>> >>, notes) :
         shapes \in {<<>>, <<BodyShape>>, <<TitleShape, BodyShape>>,
                     <<BodyShape, ShapeDesc("body", <<SlidePara("", <<"3">>)>>)>>,
                     <<BulletShape, ShapeDesc("subTitle", <<SlidePara("", <<" ", "y">>)>>)>>},
         notes \in OrderNotes}
    \cup {Slide(shapes, << <<RowD>>, <<RowC>> >>, notes) :
              shapes \in {<<>>, <<BodyShape>>}, notes \in OrderNotes}

RdInit ==
    /\ cv_pc = "start" /\ cv_conv = "none"
    /\ cv_doc \in WordDocs \cup SlideDocs \cup OrderDocs
                   \cup {TablesFirst(doc) : doc \in OrderDocs}
    /\ cv_input = Package(cv_doc)
    /\ cv_sink = Unlimited
    /\ cv_out = <<>> /\ cv_res = Ok(<<>>)
    /\ cv_out2 = <<>> /\ cv_res2 = Ok(<<>>)
    /\ FmtIdle /\ TblIdle /\ WbIdle /\ SdIdle /\ PsIdle

SpecRender == RdInit /\ [][CvNext]_vars

(***************************************************************************)
(* SpecStructured: write_value_as_markdown applied once to objects nested  *)
(* up to MaxDepth deep: each level is an object with one key whose value   *)
(* is the next level, and the innermost value is a leaf.                   *)
(***************************************************************************)
StructKeys == {<<"k">>, <<"#">>, <<>>}
StructLeaves ==
    {Object(<<>>), Object(<<KeyValue(<<"g">>, String(<<"l", "|">>))>>),
     Object(<<KeyValue(<<"g">>, Null), KeyValue(<<"h">>, Object(<<>>)),
              KeyValue(<<"i">>, String(<<>>))>>)}

RECURSIVE Nested(_, _, _)
Nested(n, key, leaf) ==
    IF n = 0 THEN leaf ELSE Object(<<KeyValue(key, Nested(n - 1, key, leaf))>>)

StructValues ==
    {Nested(n, key, leaf) : n \in 1..MaxDepth, key \in StructKeys, leaf \in StructLeaves}

SdInit ==
    /\ sd_pc = "start"
    /\ sd_value \in StructValues \cup {Null, String(<<"s">>)}
    /\ sd_out = <<>>
    /\ FmtIdle /\ TblIdle /\ WbIdle /\ CvIdle /\ PsIdle

WriteValueAsMarkdown ==
    /\ sd_pc = "start"
    /\ sd_out' = write_value_as_markdown(Running(Unlimited), sd_value).out
    /\ sd_pc' = "done"
    /\ UNCHANGED <<sd_value, fmt_vars, tbl_vars, wb_vars, cv_vars, ps_vars>>

SdNext == WriteValueAsMarkdown

SpecStructured == SdInit /\ [][SdNext]_vars

(***************************************************************************)
(* SpecParse: parse_document (word.rs) or extract_slide_content            *)
(* (powerpoint.rs) reading one part event by event.  The part is written   *)
(* from a tree of elements, so its events are well nested: every start tag *)
(* has its end tag, and elements close innermost first.                    *)
(***************************************************************************)
El(name, attrs, kids) ==
    [node |-> "el", name |-> name, attrs |-> attrs, text |-> <<>>, kids |-> kids]
Emp(name, attrs) ==
    [node |-> "empty", name |-> name, attrs |-> attrs, text |-> <<>>, kids |-> <<>>]
Txt(text) ==
    [node |-> "text", name |-> <<>>, attrs |-> <<>>, text |-> text, kids |-> <<>>]

\* the events the reader yields for a list of nodes
RECURSIVE XmlEvents(_)
XmlEvents(nodes) ==
    IF nodes = <<>> THEN <<>>
    ELSE (IF Head(nodes).node = "el"
          THEN <<StartEv(Head(nodes).name, Head(nodes).attrs)>>
               \o XmlEvents(Head(nodes).kids) \o <<EndEv(Head(nodes).name)>>
          ELSE IF Head(nodes).node = "empty"
          THEN <<EmptyEv(Head(nodes).name, Head(nodes).attrs)>>
          ELSE <<TextEv(Head(nodes).text)>>)
         \o XmlEvents(Tail(nodes))

\* word/document.xml: <w:document><w:body>..</w:body></w:document>
WRun(text) == El(Wx("r"), <<>>, <<El(Wx("t"), <<>>, <<Txt(text)>>)>>)
WBoldRun(text) ==
    El(Wx("r"), <<>>, <<El(Wx("rPr"), <<>>, <<Emp(Wx("b"), <<>>), Emp(Wx("i"), <<>>)>>),
                        El(Wx("t"), <<>>, <<Txt(text)>>)>>)
WPStyle(style) == Emp(Wx("pStyle"), <<Attr(<<"w", "val">>, style)>>)
WPara(ppr, runs) ==
    El(Wx("p"), <<>>, (IF ppr = <<>> THEN <<>> ELSE <<El(Wx("pPr"), <<>>, ppr)>>) \o runs)
WCell(kids) == El(Wx("tc"), <<>>, kids)
WRow(cells) == El(Wx("tr"), <<>>, cells)
WTable(rows) == El(Wx("tbl"), <<>>, rows)

\* <w:numPr/>, <w:numPr><w:ilvl/><w:numId/></w:numPr>, <w:numPr><w:numId/></w:numPr>
NumPrEmpty == Emp(Wx("numPr"), <<>>)
NumPrLevelAndId == El(Wx("numPr"), <<>>, <<Emp(Wx("ilvl"), <<>>), Emp(Wx("numId"), <<>>)>>)
NumPrIdOnly == El(Wx("numPr"), <<>>, <<Emp(Wx("numId"), <<>>)>>)

WParaA == WPara(<<>>, <<WRun(<<"a">>)>>)
\* a numbered paragraph of its own text
WParaN == WPara(<<NumPrEmpty>>, <<WRun(<<"n">>)>>)
\* a paragraph that ends with a bold and an italic element after its run
WParaBoldOpen == WPara(<<>>, <<WRun(<<"a">>), Emp(Wx("b"), <<>>), Emp(Wx("i"), <<>>)>>)

WordParas ==
    {WPara(style \o num, <<WRun(<<"a">>)>>) :
         style \in {<<>>, <<WPStyle(StyleHeading1)>>, <<WPStyle(StyleQuote)>>},
         num \in {<<>>, <<NumPrEmpty>>, <<NumPrLevelAndId>>, <<NumPrIdOnly>>}}
    \cup {WPara(<<>>, <<WRun(<<"a">>), num>>) : num \in {NumPrEmpty, NumPrIdOnly}}
    \cup {WPara(<<>>, <<WBoldRun(<<"a">>)>>), WPara(<<>>, <<>>)}

WCellA == WCell(<<WParaA>>)
WCellN == WCell(<<WPara(<<>>, <<WRun(<<"n">>)>>)>>)

WordCells ==
    {WCellA,
     WCell(<<WPara(<<>>, <<WBoldRun(<<" ", "b">>)>>)>>),
     WCell(<<WParaA, WPara(<<>>, <<WRun(<<"b", " ">>)>>)>>),
     WCell(<<>>),
     \* a table in a cell, with a paragraph before and after it
     WCell(<<WParaA, WTable(<<WRow(<<WCellN>>)>>), WPara(<<>>, <<WRun(<<"z">>)>>)>>)}

WordTables ==
    {WTable(<<>>), WTable(<<WRow(<<>>)>>)}
    \cup {WTable(<<WRow(<<c>>)>>) : c \in WordCells}
    \cup {WTable(<<WRow(<<WCellA, c>>)>>) : c \in WordCells}
    \cup {WTable(<<WRow(<<WCellA>>), WRow(<<c>>)>>) : c \in WordCells}

WordTrees ==
    {<<x>> : x \in WordParas \cup WordTables}
    \cup {<<WParaA, t>> : t \in WordTables}
    \cup {<<t, WParaA>> : t \in WordTables}
    \cup {<<t, WTable(<<WRow(<<WCellN>>)>>)>> : t \in WordTables}
    \* a paragraph after another one, after a cell with a styled paragraph,
    \* and after elements that stand in no paragraph
    \cup {<<p, q>> : p \in WordParas \cup {WParaBoldOpen}, q \in {WParaA, WParaN}}
    \cup {<<WTable(<<WRow(<<WCell(<<p>>)>>)>>), WParaA>> : p \in WordParas}
    \cup {<<Emp(Wx("b"), <<>>), Emp(Wx("i"), <<>>), NumPrEmpty, WPStyle(StyleHeading1),
            WParaA>>}

WordPart(tree) ==
    XmlEvents(<<El(Wx("document"), <<>>, <<El(Wx("body"), <<>>, tree)>>)>>) \o <<EofEv>>

\* ppt/slides/slideN.xml: <p:sld><p:cSld><p:spTree>..</p:spTree></p:cSld></p:sld>
SRun(text) == El(Ax("r"), <<>>, <<El(Ax("t"), <<>>, <<Txt(text)>>)>>)
SRunNoText == El(Ax("r"), <<>>, <<El(Ax("t"), <<>>, <<>>)>>)
SPara(kids) == El(Ax("p"), <<>>, kids)
Ph(type) == Emp(Px("ph"), <<Attr(<<"type">>, type)>>)
PhNoType == Emp(Px("ph"), <<>>)
SShape(name, head, paras) ==
    El(Px(name), <<>>, head \o <<El(Px("txBody"), <<>>, paras)>>)
SPicture(head) == El(Px("pic"), <<>>, head)
SCell(text) == El(Ax("tc"), <<>>, <<El(Ax("txBody"), <<>>, <<SPara(<<SRun(text)>>)>>)>>)
STable(rows) == El(Px("graphicFrame"), <<>>, <<El(Ax("tbl"), <<>>, rows)>>)
SRow(cells) == El(Ax("tr"), <<>>, cells)

ShapeHeads ==
    {<<>>, <<PhNoType>>, <<Ph("title")>>, <<Ph("ctrTitle")>>, <<Ph("subTitle")>>,
     <<Ph("body")>>}

ShapeParas ==
    {<<>>,
     <<SPara(<<>>)>>,
     <<SPara(<<SRunNoText>>)>>,
     <<SPara(<<SRun(<<"x">>)>>)>>,
     <<SPara(<<>>), SPara(<<SRunNoText, SRun(<<"x">>)>>)>>}

SlideShapeTrees ==
    {SShape("sp", head, paras) : head \in ShapeHeads, paras \in ShapeParas}
    \cup {SShape("pic", <<Ph("title")>>, <<SPara(<<SRun(<<"x">>)>>)>>),
          SPicture(<<>>), SPicture(<<Ph("title")>>)}

STitle == SShape("sp", <<Ph("title")>>, <<SPara(<<SRun(<<"T">>)>>)>>)
SBody == SShape("sp", <<>>, <<SPara(<<SRun(<<"x">>)>>)>>)
STableC == STable(<<SRow(<<SCell(<<"c">>)>>)>>)

SlideTableTrees ==
    {STable(<<>>), STable(<<SRow(<<>>)>>), STableC,
     STable(<<SRow(<<SCell(<<" ", "c">>), SCell(<<"d">>)>>), SRow(<<SCell(<<"e">>)>>)>>),
     \* a shape element directly inside a table, before its row
     STable(<<STitle, SRow(<<SCell(<<"c">>)>>)>>)}

SlideTrees ==
    {<<x>> : x \in SlideShapeTrees \cup SlideTableTrees \cup {Ph("title")}}
    \cup {<<Ph("title"), s>> : s \in SlideShapeTrees}
    \cup {<<STitle, x>> : x \in SlideShapeTrees \cup SlideTableTrees}
    \cup {<<SPicture(<<Ph("title")>>), s>> : s \in SlideShapeTrees}
    \cup {<<t, s>> : t \in SlideTableTrees, s \in {STitle, SBody}}
    \cup {<<t, STableC>> : t \in SlideTableTrees}

SlidePart(tree) ==
    XmlEvents(<<El(Px("sld"), <<>>,
                   <<El(Px("cSld"), <<>>, <<El(Px("spTree"), <<>>, tree)>>)>>)>>)
    \o <<EofEv>>

\* a part that ends in a syntax error after its first elements
Broken(part) == SubSeq(part, 1, 3) \o <<ErrEv>>

PsInit ==
    /\ \/ /\ ps_kind = "word"
          /\ ps_tree \in WordTrees
          /\ ps_events \in {WordPart(ps_tree), Broken(WordPart(ps_tree))}
       \/ /\ ps_kind = "slide"
          /\ ps_tree \in SlideTrees
          /\ ps_events \in {SlidePart(ps_tree), Broken(SlidePart(ps_tree))}
    /\ ps_n = 0
    /\ ps_wb = word_locals
    /\ ps_sb = ppt_locals
    /\ ps_state = "reading"
    /\ FmtIdle /\ TblIdle /\ WbIdle /\ CvIdle /\ SdIdle

PsNextEvent == ps_events[ps_n + 1]

\* one turn of the loop of parse_document
PsWordEvent ==
    /\ ps_state = "reading" /\ ps_kind = "word"
    /\ PsNextEvent.type \notin {"Eof", "Err"}
    /\ ps_wb' = word_on_event(ps_wb, PsNextEvent)
    /\ ps_n' = ps_n + 1
    /\ UNCHANGED <<ps_kind, ps_tree, ps_events, ps_sb, ps_state,
                   fmt_vars, tbl_vars, wb_vars, cv_vars, sd_vars>>

\* one turn of the loop of extract_slide_content
PsSlideEvent ==
    /\ ps_state = "reading" /\ ps_kind = "slide"
    /\ PsNextEvent.type \notin {"Eof", "Err"}
    /\ ps_sb' = ppt_on_event(ps_sb, PsNextEvent)
    /\ ps_n' = ps_n + 1
    /\ UNCHANGED <<ps_kind, ps_tree, ps_events, ps_wb, ps_state,
                   fmt_vars, tbl_vars, wb_vars, cv_vars, sd_vars>>

\* Ok(Event::Eof) => break
PsEof ==
    /\ ps_state = "reading"
    /\ PsNextEvent.type = "Eof"
    /\ ps_state' = "eof"
    /\ ps_n' = ps_n + 1
    /\ UNCHANGED <<ps_kind, ps_tree, ps_events, ps_wb, ps_sb,
                   fmt_vars, tbl_vars, wb_vars, cv_vars, sd_vars>>

\* Err(e) => return Err(Error::Conversion { .. })
PsErr ==
    /\ ps_state = "reading"
    /\ PsNextEvent.type = "Err"
    /\ ps_state' = "err"
    /\ ps_n' = ps_n + 1
    /\ UNCHANGED <<ps_kind, ps_tree, ps_events, ps_wb, ps_sb,
                   fmt_vars, tbl_vars, wb_vars, cv_vars, sd_vars>>

PsNext == PsWordEvent \/ PsSlideEvent \/ PsEof \/ PsErr

SpecParse == PsInit /\ [][PsNext]_vars

(***************************************************************************)
(* Reading a rendering back: lines, and the cells of a table line.         *)
(***************************************************************************)
\* The lines of s, each ended by a line end; text after the last line end
\* counts as one more line.
LineEnds(s) == {i \in 1..Len(s) : s[i] = NL}

\* the positions of the line ends of s in ascending order
LineEndSeq(s) ==
    LET ends == LineEnds(s)
        rank == [p \in ends |-> Cardinality({q \in ends : q <= p})]
    IN  [k \in 1..Cardinality(ends) |-> CHOOSE p \in ends : rank[p] = k]

SplitLines(s) ==
    LET at == LineEndSeq(s)
        n == Len(at)
    IN  [k \in 1..n |-> SubSeq(s, IF k = 1 THEN 1 ELSE at[k - 1] + 1, at[k] - 1)]
        \o (IF s # <<>> /\ s[Len(s)] # NL
            THEN <<SubSeq(s, IF n = 0 THEN 1 ELSE at[n] + 1, Len(s))>>
            ELSE <<>>)

\* The text between consecutive '|' that no backslash precedes, in order,
\* of a line that starts with '|'.
RECURSIVE CellScan(_, _, _, _)
CellScan(line, i, cur, acc) ==
    IF i > Len(line) THEN acc
    ELSE IF line[i] = "|" /\ line[i - 1] # "\\"
         THEN CellScan(line, i + 1, <<>>, Append(acc, cur))
         ELSE CellScan(line, i + 1, Append(cur, line[i]), acc)

WellFramed(line) == line # <<>> /\ line[1] = "|" /\ line[Len(line)] = "|"

SplitCells(line) == CellScan(line, 2, <<>>, <<>>)

Padded(seg) == Len(seg) >= 2 /\ seg[1] = " " /\ seg[Len(seg)] = " "

Inner(seg) == SubSeq(seg, 2, Len(seg) - 1)

\* A cell with every backslash that stands right before a '|' taken out.
RECURSIVE Unescape(_)
Unescape(s) ==
    IF s = <<>> THEN <<>>
    ELSE IF Len(s) >= 2 /\ s[1] = "\\" /\ s[2] = "|"
         THEN <<"|">> \o Unescape(SubSeq(s, 3, Len(s)))
         ELSE <<Head(s)>> \o Unescape(Tail(s))

\* The widest row of a table, 0 for no rows.
Widest(rows) ==
    IF rows = <<>> THEN 0
    ELSE CHOOSE c \in {Len(rows[k]) : k \in 1..Len(rows)} :
             \A k \in 1..Len(rows) : Len(rows[k]) <= c

\* Row r as the table shows it: its cells, then empty cells up to width c.
PadRow(r, c) == [i \in 1..c |-> IF i <= Len(r) THEN r[i] ELSE <<>>]

LineIsRow(line, r, c) ==
    \A segs \in {SplitCells(line)} :
        /\ WellFramed(line)
        /\ Len(segs) = c
        /\ \A i \in 1..c :
               /\ Padded(segs[i])
               /\ Unescape(Inner(segs[i])) = (IF i <= Len(r) THEN r[i] ELSE <<>>)

SeparatorLine(c) == <<"|">> \o Concat([i \in 1..c |-> <<"-", "-", "-", "|">>])

(***************************************************************************)
(* C1.  In the word builder the bold and italic flags are false whenever   *)
(* a run opens: a bold or italic element read outside any run, such as in  *)
(* the paragraph's own properties before its first run, does not reach the *)
(* text of a run.  Stated for a run that opens directly inside a           *)
(* paragraph.                                                              *)
(***************************************************************************)
WbRunOpens == w_stack = <<W("p")>> /\ w_stack' = <<W("p"), W("r")>>

C1_RunOpensUnformatted ==
    [][WbRunOpens => (~wb'.is_bold /\ ~wb'.is_italic)]_vars

(***************************************************************************)
(* C2.  format_run_text returns ***text*** for bold and italic, **text**   *)
(* for bold only, *text* for italic only and the text itself for neither,  *)
(* for every non-empty text; the empty text gives the empty string; and    *)
(* word.rs and powerpoint.rs return the same string for every input.       *)
(***************************************************************************)
Stars(bold, italic) ==
    [i \in 1..((IF bold THEN 2 ELSE 0) + (IF italic THEN 1 ELSE 0)) |-> "*"]

C2_FormatRunText ==
    f_pc = "done" =>
        /\ f_word = IF f_text = <<>> THEN <<>>
                    ELSE Stars(f_bold, f_italic) \o f_text \o Stars(f_bold, f_italic)
        /\ f_ppt = f_word

C2_Witness ==
    /\ f_pc = "done"
    /\ f_bold /\ ~f_italic
    /\ f_text = <<"a", "*">>
    /\ f_word = <<"*", "*", "a", "*", "*", "*">>

(***************************************************************************)
(* C3.  For rows whose widest row has c > 0 cells, write_table emits       *)
(* len(rows)+1 lines of exactly c cells each: the first line is rows[0]    *)
(* padded with empty cells to width c, and the line of every later row,    *)
(* in source order, is that row padded to width c.                         *)
(***************************************************************************)
TableShape(out, rows) ==
    \A c \in {Widest(rows)}, lines \in {SplitLines(out)} :
        /\ out # <<>> /\ out[Len(out)] = NL
        /\ Len(lines) = Len(rows) + 1
        /\ LineIsRow(lines[1], rows[1], c)
        /\ WellFramed(lines[2]) /\ Len(SplitCells(lines[2])) = c
        /\ \A k \in 2..Len(rows) : LineIsRow(lines[k + 1], rows[k], c)

C3_TableShape ==
    (t_pc = "done" /\ Widest(t_rows) > 0) =>
        TableShape(t_word, t_rows) /\ TableShape(t_ppt, t_rows)

C3_Witness ==
    /\ t_pc = "done"
    /\ Len(t_rows) = 2
    /\ Len(t_rows[1]) = 1 /\ Len(t_rows[2]) = 2
    /\ Len(SplitLines(t_word)) = 3
    /\ SplitCells(SplitLines(t_word)[1])[2] = <<" ", " ">>

(***************************************************************************)
(* C4.  In a rendered table the line right after the header line is the    *)
(* separator row, '|' followed by '---|' once per column, and the table    *)
(* has exactly one such line.                                              *)
(***************************************************************************)
OneSeparator(out, rows) ==
    \A lines \in {SplitLines(out)}, sep \in {SeparatorLine(Widest(rows))} :
        /\ Len(lines) >= 2
        /\ lines[2] = sep
        /\ {k \in 1..Len(lines) : lines[k] = sep} = {2}

C4_SeparatorRow ==
    (t_pc = "done" /\ Widest(t_rows) > 0) =>
        OneSeparator(t_word, t_rows) /\ OneSeparator(t_ppt, t_rows)

C4_Witness ==
    /\ t_pc = "done"
    /\ Len(t_rows) = 2
    /\ \A k \in 1..2 : t_rows[k] = <<<<"-", "-", "-">>, <<"-", "-", "-">>>>
    /\ SplitLines(t_ppt)[2] = <<"|", "-", "-", "-", "|", "-", "-", "-", "|">>

(***************************************************************************)
(* C5.  Every cell of the header row and of every data row is written with *)
(* each '|' replaced by '\|' and nothing else changed: in the written cell *)
(* every '|' has a backslash right before it, and taking those backslashes *)
(* out gives the cell's value.                                             *)
(***************************************************************************)
EscapedCell(written, cell) ==
    /\ \A i \in 1..Len(written) :
           written[i] = "|" => (i > 1 /\ written[i - 1] = "\\")
    /\ Len(written) = Len(cell) + Cardinality({i \in 1..Len(cell) : cell[i] = "|"})
    /\ Unescape(written) = cell

CellsEscaped(out, rows) ==
    \A c \in {Widest(rows)}, lines \in {SplitLines(out)} :
        /\ Len(lines) = Len(rows) + 1
        /\ \A k \in 1..Len(rows) :
               \A segs \in {SplitCells(lines[IF k = 1 THEN 1 ELSE k + 1])} :
                   /\ Len(segs) = c
                   /\ \A i \in 1..Len(rows[k]) :
                          /\ Padded(segs[i])
                          /\ EscapedCell(Inner(segs[i]), rows[k][i])

C5_PipeEscaped ==
    (t_pc = "done" /\ Widest(t_rows) > 0) =>
        CellsEscaped(t_word, t_rows) /\ CellsEscaped(t_ppt, t_rows)

C5_Witness ==
    /\ t_pc = "done"
    /\ Len(t_rows) = 2
    /\ t_rows[1] = <<<<"|", "\\">>>>
    /\ t_rows[2] = <<<<"-", "-", "-">>, <<"|", "\\">>>>
    /\ t_ppt = <<"|", " ", "\\", "|", "\\", " ", "|", " ", " ", "|", NL>>
               \o <<"|", "-", "-", "-", "|", "-", "-", "-", "|", NL>>
               \o <<"|", " ", "-", "-", "-", " ", "|", " ", "\\", "|", "\\", " ", "|", NL>>

(***************************************************************************)
(* Reading a conversion back: the parts of the input and the slides of     *)
(* the output.                                                             *)
(***************************************************************************)
format_name(conv) ==
    IF conv = "WordConverter" THEN word_format_name ELSE ppt_format_name

Done(conv) == cv_pc = "done" /\ cv_conv = conv

HasEntry(name) == \E k \in 1..Len(cv_input.entries) : cv_input.entries[k].name = name

DataOf(name) ==
    cv_input.entries[CHOOSE k \in 1..Len(cv_input.entries) :
                         cv_input.entries[k].name = name].data

WellFormed(data) == data.readable /\ extract_slide_content(data.events).ok
Malformed(data) == data.readable /\ ~extract_slide_content(data.events).ok

SortedSlides == ppt_slide_names(cv_input.entries)

ContentOf(name) == extract_slide_content(DataOf(name).events).value

\* The lines of an output cut at every line that is the rule '---'.
RECURSIVE ChunksFrom(_, _, _)
ChunksFrom(lines, cur, acc) ==
    IF lines = <<>> THEN Append(acc, cur)
    ELSE IF Head(lines) = StrRule THEN ChunksFrom(Tail(lines), <<>>, Append(acc, cur))
    ELSE ChunksFrom(Tail(lines), Append(cur, Head(lines)), acc)

SlideChunks(out) == ChunksFrom(SplitLines(out), <<>>, <<>>)

RuleCount(out) ==
    Cardinality({i \in 1..Len(SplitLines(out)) : SplitLines(out)[i] = StrRule})

(***************************************************************************)
(* C6.  Slides are rendered in ascending order of the unsigned integer     *)
(* that stands in the part name between 'ppt/slides/slide' and '.xml',     *)
(* compared as a number, whatever the order of the parts in the archive;   *)
(* a part whose suffix is not an integer is ordered as if it were 0.  The  *)
(* conversion is the rendering of the slide parts in one such order.       *)
(***************************************************************************)
RECURSIVE NumeralValue(_)
NumeralValue(ds) ==
    IF ds = <<>> THEN 0
    ELSE 10 * NumeralValue(SubSeq(ds, 1, Len(ds) - 1)) + DigitValue(ds[Len(ds)])

\* what stands between the leading 'ppt/slides/slide' and the final '.xml'
SuffixOf(name) == SubSeq(name, 2, Len(name) - 1)

SuffixKey(name) ==
    IF SuffixOf(name) # <<>> /\ \A i \in 1..Len(SuffixOf(name)) : IsDigit(SuffixOf(name)[i])
    THEN NumeralValue(SuffixOf(name)) ELSE 0

Orders(names) ==
    {[k \in 1..Len(names) |-> names[p[k]]] :
         p \in {q \in [1..Len(names) -> 1..Len(names)] :
                    \A i, j \in 1..Len(names) : i # j => q[i] # q[j]}}

C6_NumericOrder ==
    (Done("PowerPointConverter") /\ cv_input.zip) =>
        \E order \in Orders(ppt_slide_entries(cv_input.entries)) :
            /\ \A i, j \in 1..Len(order) :
                   i < j => SuffixKey(order[i]) <= SuffixKey(order[j])
            /\ cv_out = ppt_convert_slides(Running(cv_sink), cv_input.entries, order, 0).out
            /\ cv_res = ppt_convert_slides(Running(cv_sink), cv_input.entries, order, 0).res

(***************************************************************************)
(* C7.  In a presentation that converts, the output of every slide starts, *)
(* after the separator, with the only level-1 heading of the slide: '# '   *)
(* and the space-joined rendered paragraphs of the first shape exactly     *)
(* when that shape is flagged is_title, '# Slide N' otherwise.  A title    *)
(* shape further down the list is not promoted: its paragraphs are lines   *)
(* of the body.                                                            *)
(***************************************************************************)
HeadingOf(content, k) ==
    IF content.shapes # <<>> /\ content.shapes[1].is_title
    THEN <<"#", " ">> \o join_paragraphs_inline(content.shapes[1].paragraphs)
    ELSE StrSlideHeading \o to_decimal(k)

\* the line of chunk k that follows the separator: the rule is followed by
\* an empty line
HeadingAt(k) == IF k = 1 THEN 1 ELSE 2

SlideStartsWithHeading(lines, content, k) ==
    /\ Len(lines) >= HeadingAt(k)
    /\ \A i \in 1..(HeadingAt(k) - 1) : lines[i] = <<>>
    /\ lines[HeadingAt(k)] = HeadingOf(content, k)
    /\ \A i \in 1..Len(lines) : starts_with(lines[i], <<"#", " ">>) => i = HeadingAt(k)
    /\ \A j \in 2..Len(content.shapes) :
           content.shapes[j].is_title =>
               \A n \in 1..Len(content.shapes[j].paragraphs) :
                   \/ trim(render_paragraph(content.shapes[j].paragraphs[n])) = <<>>
                   \/ \E i \in (HeadingAt(k) + 1)..Len(lines) :
                          lines[i] = trim(render_paragraph(content.shapes[j].paragraphs[n]))

C7_TitlePromotion ==
    (Done("PowerPointConverter") /\ cv_res.ok) =>
        IF SortedSlides = <<>> THEN cv_out = <<>>
        ELSE /\ Len(SlideChunks(cv_out)) = Len(SortedSlides)
             /\ \A k \in 1..Len(SortedSlides) :
                    SlideStartsWithHeading(SlideChunks(cv_out)[k],
                                           ContentOf(SortedSlides[k]), k)

C7_Witness ==
    /\ Done("PowerPointConverter") /\ cv_res.ok
    /\ Len(SortedSlides) = 2
    /\ Len(ContentOf(SortedSlides[1]).shapes) = 1
    /\ ContentOf(SortedSlides[1]).shapes[1].is_title
    /\ Len(ContentOf(SortedSlides[2]).shapes) = 2
    /\ ~ContentOf(SortedSlides[2]).shapes[1].is_title
    /\ ContentOf(SortedSlides[2]).shapes[2].is_title

(***************************************************************************)
(* C8.  The notes of a slide are best-effort: a notes part that is         *)
(* missing, cannot be read or does not parse counts as no notes.  When     *)
(* every slide part reads and parses, the conversion succeeds and writes   *)
(* what it writes for the archive without the failing notes parts.         *)
(***************************************************************************)
FailingNotes(e) ==
    /\ \E k \in 1..Len(SortedSlides) : e.name = ppt_notes_name(SortedSlides[k])
    /\ ~WellFormed(e.data)

WithoutFailingNotes ==
    Zip(SelectSeq(cv_input.entries, LAMBDA e : ~FailingNotes(e)))

C8_NotesBestEffort ==
    (/\ Done("PowerPointConverter") /\ cv_input.zip /\ ~cv_sink.limited
     /\ \A k \in 1..Len(SortedSlides) : WellFormed(DataOf(SortedSlides[k])))
    => /\ cv_res.ok
       /\ cv_out = PowerPointConverter_convert(WithoutFailingNotes, cv_sink).out

(***************************************************************************)
(* C9.  Every error that WordConverter::convert or                         *)
(* PowerPointConverter::convert returns is a Conversion error tagged with  *)
(* the converter's format_name(), whichever step failed.                   *)
(***************************************************************************)
C9_AllErrorsConversion ==
    (cv_pc = "done" /\ ~cv_res.ok) =>
        (cv_res.variant = "Conversion" /\ cv_res.format = format_name(cv_conv))

(***************************************************************************)
(* C9, as the code has it.  An error returned by either converter is a     *)
(* Conversion error tagged with the converter's format_name() when         *)
(* opening the zip container, looking up an entry or parsing XML failed,   *)
(* and an Io error when reading an entry or writing to the sink failed.    *)
(* An input that is no zip archive fails at the container; with every      *)
(* entry readable and a sink that takes everything no error is an Io       *)
(* error.                                                                  *)
(***************************************************************************)
C9_ErrorTags ==
    (cv_pc = "done" /\ ~cv_res.ok) =>
        /\ \/ /\ cv_res.variant = "Conversion"
              /\ cv_res.format = format_name(cv_conv)
              /\ cv_res.message \in {MsgZip, MsgEntryNotFound,
                                     MsgParseDocument, MsgParseSlide}
           \/ /\ cv_res.variant = "Io"
              /\ cv_res.message \in {MsgRead, MsgWrite}
        /\ ~cv_input.zip => cv_res = ConversionErr(format_name(cv_conv), MsgZip)
        /\ cv_res.message = MsgWrite => cv_sink.limited
        /\ cv_res.message = MsgRead =>
               \E k \in 1..Len(cv_input.entries) : ~cv_input.entries[k].data.readable

C9_Witness ==
    /\ Done("WordConverter") /\ cv_input.zip /\ cv_input.entries # <<>>
    /\ cv_res = ConversionErr("word", MsgEntryNotFound)

(***************************************************************************)
(* C10.  If the k-th slide in sorted order is malformed and everything     *)
(* before it succeeded, convert returns the Conversion error of the        *)
(* parser and the sink holds the complete rendering of the k-1 slides      *)
(* before it, as the archive without the slides from the k-th on gives     *)
(* it: nothing of slide k, and not the separator before it.                *)
(***************************************************************************)
NotesDoNotFail(name) ==
    HasEntry(ppt_notes_name(name)) => ~Malformed(DataOf(ppt_notes_name(name)))

FirstMalformed(k) ==
    /\ k \in 1..Len(SortedSlides)
    /\ Malformed(DataOf(SortedSlides[k]))
    /\ \A j \in 1..(k - 1) :
           WellFormed(DataOf(SortedSlides[j])) /\ NotesDoNotFail(SortedSlides[j])

WithoutSlidesFrom(k) ==
    Zip(SelectSeq(cv_input.entries,
                  LAMBDA e : \A j \in k..Len(SortedSlides) : e.name # SortedSlides[j]))

C10_MalformedSlide ==
    (Done("PowerPointConverter") /\ cv_input.zip /\ ~cv_sink.limited) =>
        \A k \in 1..Len(SortedSlides) :
            FirstMalformed(k) =>
                /\ cv_res = ConversionErr("powerpoint", MsgParseSlide)
                /\ cv_out = PowerPointConverter_convert(WithoutSlidesFrom(k), cv_sink).out
                /\ RuleCount(cv_out) = Max(k - 2, 0)

C10_Witness ==
    /\ Done("PowerPointConverter") /\ cv_input.zip /\ ~cv_sink.limited
    /\ FirstMalformed(2)
    /\ cv_out # <<>>

(***************************************************************************)
(* Reading a document back: the blocks and shapes the conversion is about. *)
(***************************************************************************)
RemoveAt(seq, i) == SubSeq(seq, 1, i - 1) \o SubSeq(seq, i + 1, Len(seq))

WordOut(blocks) == WordConverter_convert(Package(WordDoc(blocks)), cv_sink).out

SlideOut(shapes, tables, notes) ==
    PowerPointConverter_convert(Package(Slide(shapes, tables, notes)), cv_sink).out

\* s occurs in t as consecutive characters
Occurs(s, t) == \E i \in 0..(Len(t) - Len(s)) : SubSeq(t, i + 1, i + Len(s)) = s

(***************************************************************************)
(* C11.  A table with zero rows, or whose rows all have zero cells, is     *)
(* dropped entirely: the word or powerpoint conversion writes the same     *)
(* bytes as for the document without that table.                           *)
(***************************************************************************)
EmptyTable(rows) == \A k \in 1..Len(rows) : rows[k] = <<>>

C11_EmptyTableDropped ==
    /\ (Done("WordConverter") /\ cv_doc.kind = "word") =>
           \A i \in 1..Len(cv_doc.blocks) :
               (cv_doc.blocks[i].kind = "tbl" /\ EmptyTable(cv_doc.blocks[i].rows)) =>
                   cv_out = WordOut(RemoveAt(cv_doc.blocks, i))
    /\ (Done("PowerPointConverter") /\ cv_doc.kind = "slide") =>
           \A i \in 1..Len(cv_doc.tables) :
               EmptyTable(cv_doc.tables[i]) =>
                   cv_out = SlideOut(cv_doc.shapes, RemoveAt(cv_doc.tables, i), cv_doc.notes)

(***************************************************************************)
(* C12.  When a word paragraph closes outside a table cell its block is,   *)
(* in this precedence: Heading(N) for a style heading<N> or titre<N> with  *)
(* N in 1..6, in any case of letters; else BlockQuote for a style quote,   *)
(* intensequote or blockquote; else ListItem if a numbering marker was     *)
(* seen in the paragraph; else Text.  A heading style wins over a          *)
(* numbering marker, and no Heading block has a level outside 1..6.        *)
(***************************************************************************)
StyleLevel(style) ==
    IF \E n \in 1..6 : to_ascii_lowercase(style) \in {StrHeading \o <<Digits[n + 1]>>,
                                                      StrTitre \o <<Digits[n + 1]>>}
    THEN CHOOSE n \in 1..6 : to_ascii_lowercase(style) \in {StrHeading \o <<Digits[n + 1]>>,
                                                            StrTitre \o <<Digits[n + 1]>>}
    ELSE 0

StyleIsQuote(style) ==
    to_ascii_lowercase(style) \in {StrQuote, StrIntenseQuote, StrBlockQuote}

BlockByPrecedence(style, numbered, text) ==
    IF style.some /\ StyleLevel(style.value) # 0
    THEN Heading(StyleLevel(style.value), text)
    ELSE IF style.some /\ StyleIsQuote(style.value) THEN BlockQuote(text)
    ELSE IF numbered THEN ListItem(text)
    ELSE TextBlock(text)

WbParagraphCloses ==
    /\ w_stack # <<>> /\ w_stack[Len(w_stack)] = W("p")
    /\ w_stack' = SubSeq(w_stack, 1, Len(w_stack) - 1)
    /\ wb.in_paragraph /\ ~wb.in_table_cell

NotesPrefix == <<">", " ", "*", "*", "N", "o", "t", "e", "s", "*", "*", ":", " ">>

\* the texts of the paragraphs of the shapes of a notes part, in order
NotesTexts(shapes) ==
    Concat([k \in 1..Len(shapes) |->
                [n \in 1..Len(shapes[k].paras) |-> shapes[k].paras[n].text]])

AllDigits(t) == \A i \in 1..Len(t) : t[i] \in {"0", "1", "2", "3", "4", "5", "6", "7", "8", "9"}

RECURSIVE KeptNotes(_)
KeptNotes(texts) ==
    IF texts = <<>> THEN <<>>
    ELSE (IF trim(Head(texts)) = <<>> \/ AllDigits(trim(Head(texts))) THEN <<>>
          ELSE <<trim(Head(texts))>>)
         \o KeptNotes(Tail(texts))

RECURSIVE JoinedByLineEnds(_)
JoinedByLineEnds(texts) ==
    IF texts = <<>> THEN <<>>
    ELSE IF Len(texts) = 1 THEN Head(texts)
    ELSE Head(texts) \o <<NL>> \o JoinedByLineEnds(Tail(texts))

NotesLine(shapes) ==
    IF KeptNotes(NotesTexts(shapes)) = <<>> THEN <<>>
    ELSE NotesPrefix \o JoinedByLineEnds(KeptNotes(NotesTexts(shapes))) \o <<NL, NL>>

C13_NotesLine ==
    (Done("PowerPointConverter") /\ cv_doc.kind = "slide" /\ cv_doc.notes.present) =>
        /\ cv_res.ok
        /\ cv_out = SlideOut(cv_doc.shapes, cv_doc.tables, NoNotes)
                    \o NotesLine(cv_doc.notes.shapes)

C13_Witness ==
    /\ Done("PowerPointConverter") /\ cv_doc.kind = "slide" /\ cv_doc.notes.present
    /\ NotesTexts(cv_doc.notes.shapes) = << <<"x">>, <<"3">>, <<" ", "y">> >>
    /\ Occurs(NotesPrefix \o <<"x", NL, "y", NL>>, cv_out)

(***************************************************************************)
(* C14.  The heading written for nesting depth d >= 1 has exactly          *)
(* min(d, 6) '#' characters before its space and text: exactly 6 for every *)
(* d >= 6, and no heading has 7 or more.  The headings of a value are      *)
(* those of its nested keys, in order, each at the depth of its object.    *)
(***************************************************************************)
MinOf(a, b) == IF a <= b THEN a ELSE b

\* the keys that get a heading, each with its depth, in the order written
RECURSIVE HeadingsOf(_, _)
RECURSIVE HeadingsOfEntries(_, _)
HeadingsOfEntries(entries, d) ==
    IF entries = <<>> THEN <<>>
    ELSE (IF Head(entries).value.kind = "Object"
          THEN <<[depth |-> d, key |-> Head(entries).key]>>
               \o HeadingsOf(Head(entries).value, d + 1)
          ELSE <<>>)
         \o HeadingsOfEntries(Tail(entries), d)

HeadingsOf(value, d) ==
    IF value.kind = "Object" THEN HeadingsOfEntries(value.entries, d) ELSE <<>>

\* the number of '#' a line starts with
RECURSIVE LeadingHashes(_)
LeadingHashes(line) ==
    IF line # <<>> /\ Head(line) = "#" THEN 1 + LeadingHashes(Tail(line)) ELSE 0

HashLines(out) == SelectSeq(SplitLines(out), LAMBDA line : LeadingHashes(line) > 0)

C14_HeadingDepthCapped ==
    sd_pc = "done" =>
        /\ Len(HashLines(sd_out)) = Len(HeadingsOf(sd_value, 1))
        /\ \A n \in 1..Len(HashLines(sd_out)) :
               /\ HashLines(sd_out)[n] =
                      [i \in 1..MinOf(HeadingsOf(sd_value, 1)[n].depth, 6) |-> "#"]
                      \o <<" ">> \o HeadingsOf(sd_value, 1)[n].key
               /\ LeadingHashes(HashLines(sd_out)[n])
                      = MinOf(HeadingsOf(sd_value, 1)[n].depth, 6)
               /\ LeadingHashes(HashLines(sd_out)[n]) <= 6

C14_Witness ==
    /\ sd_pc = "done"
    /\ Len(HeadingsOf(sd_value, 1)) >= 8
    /\ HeadingsOf(sd_value, 1)[8].depth = 8
    /\ LeadingHashes(HashLines(sd_out)[8]) = 6

(***************************************************************************)
(* Word blocks read from the document: the kind of block a paragraph or    *)
(* table of the document becomes, and the output up to a block.            *)
(***************************************************************************)
DescKind(b) ==
    IF b.kind = "tbl" THEN (IF b.rows = <<>> THEN "None" ELSE "Table")
    ELSE IF StyleLevel(b.style) # 0 THEN "Heading"
    ELSE IF StyleIsQuote(b.style) THEN "BlockQuote"
    ELSE IF b.numbered THEN "ListItem"
    ELSE "Text"

WordDone == Done("WordConverter") /\ cv_doc.kind = "word"

\* the output once the first n blocks are written
WordOutUpTo(n) == WordOut(SubSeq(cv_doc.blocks, 1, n))

StartsWith(t, s) == Len(s) <= Len(t) /\ SubSeq(t, 1, Len(s)) = s
EndsWith(t, s) == Len(s) <= Len(t) /\ SubSeq(t, Len(t) - Len(s) + 1, Len(t)) = s

\* t ends with the whole line s
EndsWithLine(t, s) ==
    /\ EndsWith(t, s \o <<NL>>)
    /\ Len(t) > Len(s) + 1 => t[Len(t) - Len(s) - 1] = NL

(***************************************************************************)
(* C15.  In word output every Heading(level, text) block is one line of    *)
(* exactly `level` '#' characters, one space and the text, and that line   *)
(* is followed by a blank line, whatever block follows the heading (a list *)
(* item included) and also when the heading is the last block.             *)
(***************************************************************************)
C15_HeadingThenBlankLine ==
    WordDone =>
        \A i \in 1..Len(cv_doc.blocks) :
            DescKind(cv_doc.blocks[i]) = "Heading" =>
                /\ EndsWithLine(WordOutUpTo(i),
                                [k \in 1..StyleLevel(cv_doc.blocks[i].style) |-> "#"]
                                \o <<" ">> \o cv_doc.blocks[i].text)
                /\ StartsWith(cv_out, WordOutUpTo(i) \o <<NL>>)

(***************************************************************************)
(* C16.  In word output consecutive ListItem blocks are the lines          *)
(* '- ' + text with no blank line between them, and exactly one blank line *)
(* follows the last item of every maximal run of consecutive list items,   *)
(* a run that ends the document included.                                  *)
(***************************************************************************)
IsListRun(i, j) ==
    /\ i <= j
    /\ \A k \in i..j : DescKind(cv_doc.blocks[k]) = "ListItem"
    /\ i > 1 => DescKind(cv_doc.blocks[i - 1]) # "ListItem"
    /\ j < Len(cv_doc.blocks) => DescKind(cv_doc.blocks[j + 1]) # "ListItem"

ListLines(i, j) ==
    Concat([k \in 1..(j - i + 1) |-> <<"-", " ">> \o cv_doc.blocks[i + k - 1].text \o <<NL>>])

C16_ListRunThenBlankLine ==
    WordDone =>
        \A i, j \in 1..Len(cv_doc.blocks) :
            IsListRun(i, j) =>
                /\ WordOutUpTo(j) = WordOutUpTo(i - 1) \o ListLines(i, j)
                /\ StartsWith(cv_out, WordOutUpTo(j) \o <<NL>>)
                /\ ~StartsWith(cv_out, WordOutUpTo(j) \o <<NL, NL>>)

(***************************************************************************)
(* C17.  A word paragraph without text is dropped: the output is the same  *)
(* bytes as for the document without that paragraph, wherever the          *)
(* paragraph occurs (first block included) and whatever its style or list  *)
(* marker.                                                                 *)
(***************************************************************************)
C17_EmptyParagraphDropped ==
    WordDone =>
        \A i \in 1..Len(cv_doc.blocks) :
            (cv_doc.blocks[i].kind = "p" /\ cv_doc.blocks[i].text = <<>>) =>
                cv_out = WordOut(RemoveAt(cv_doc.blocks, i))

(***************************************************************************)
(* C18.  A presentation of n >= 1 slides that converts has exactly n - 1   *)
(* slide separators (a blank line, the line '---', a blank line), each     *)
(* between the outputs of two consecutive slides in sorted order; no       *)
(* separator precedes the first slide or follows the last one.             *)
(***************************************************************************)
SeparatorAt(lines, r) ==
    /\ 1 < r /\ r < Len(lines)
    /\ lines[r - 1] = <<>>
    /\ lines[r + 1] = <<>>

HasHeading(lines, content, k) ==
    \E i \in 1..Len(lines) : lines[i] = HeadingOf(content, k)

C18_SlideSeparators ==
    (Done("PowerPointConverter") /\ cv_res.ok /\ Len(SortedSlides) >= 1) =>
        LET lines == SplitLines(cv_out)
            chunks == ChunksFrom(lines, <<>>, <<>>)
        IN  /\ Cardinality({r \in 1..Len(lines) : lines[r] = StrRule})
                   = Len(SortedSlides) - 1
            /\ \A r \in 1..Len(lines) : lines[r] = StrRule => SeparatorAt(lines, r)
            /\ Len(chunks) = Len(SortedSlides)
            /\ \A k \in 1..Len(SortedSlides) :
                   HasHeading(chunks[k], ContentOf(SortedSlides[k]), k)
            /\ lines[1] = HeadingOf(ContentOf(SortedSlides[1]), 1)

C18_Witness ==
    /\ Done("PowerPointConverter") /\ cv_res.ok
    /\ Len(SortedSlides) = 2
    /\ RuleCount(cv_out) = 1
    /\ SeparatorAt(SplitLines(cv_out),
                   CHOOSE r \in 1..Len(SplitLines(cv_out)) : SplitLines(cv_out)[r] = StrRule)

(***************************************************************************)
(* Shapes read from the slide: a shape is attached when one of its         *)
(* paragraphs has a run, and the first attached shape is the promoted      *)
(* title when its placeholder type is a title.                             *)
(***************************************************************************)
SlideDone == Done("PowerPointConverter") /\ cv_res.ok /\ cv_doc.kind = "slide"

Attached(shape) == \E n \in 1..Len(shape.paras) : shape.paras[n].text # <<>>

Promoted(shapes, j) ==
    /\ Attached(shapes[j]) /\ shapes[j].type \in {"title", "ctrTitle"}
    /\ \A i \in 1..(j - 1) : ~Attached(shapes[i])

Marked(shape) == \E n \in 1..Len(shape.paras) : shape.paras[n].marker # ""

\* the texts of the paragraphs of a shape that are not blank, trimmed
WrittenTexts(shape) ==
    SelectSeq([n \in 1..Len(shape.paras) |-> trim(shape.paras[n].text)],
              LAMBDA t : t # <<>>)

Styled(shapes, j) == ~Promoted(shapes, j) /\ shapes[j].type # "subTitle"

BulletLinesOf(shapes) ==
    Concat([j \in 1..Len(shapes) |->
                IF Styled(shapes, j) /\ Marked(shapes[j])
                THEN [n \in 1..Len(WrittenTexts(shapes[j])) |->
                          <<"-", " ">> \o WrittenTexts(shapes[j])[n]]
                ELSE <<>>])

(***************************************************************************)
(* C19.  Bullet styling is decided per shape: when a paragraph of a shape  *)
(* has a buChar, buAutoNum or buFont marker in its paragraph properties,   *)
(* every paragraph of the shape with non-blank text is the line '- ' and   *)
(* its trimmed text, the paragraphs without a marker included; when no     *)
(* paragraph of the shape has a marker, none of its paragraphs is a bullet *)
(* line.  This holds for every shape that is neither the promoted title    *)
(* nor a subtitle.                                                         *)
(***************************************************************************)
C19_BulletsPerShape ==
    SlideDone =>
        LET lines == SplitLines(cv_out)
        IN  /\ SelectSeq(lines, LAMBDA line : starts_with(line, <<"-", " ">>))
                   = BulletLinesOf(cv_doc.shapes)
            /\ \A j \in 1..Len(cv_doc.shapes) :
                   (Styled(cv_doc.shapes, j) /\ ~Marked(cv_doc.shapes[j])) =>
                       \A n \in 1..Len(WrittenTexts(cv_doc.shapes[j])) :
                           \E i \in 1..Len(lines) :
                               lines[i] = WrittenTexts(cv_doc.shapes[j])[n]

C19_Witness ==
    /\ SlideDone
    /\ Len(cv_doc.shapes) = 2
    /\ Marked(cv_doc.shapes[1]) /\ Styled(cv_doc.shapes, 1)
    /\ Styled(cv_doc.shapes, 2) /\ Len(cv_doc.shapes[2].paras) = 2
    /\ cv_doc.shapes[2].paras[1].marker = "" /\ cv_doc.shapes[2].paras[1].text = <<" ", "y">>
    /\ cv_doc.shapes[2].paras[2].marker = "buFont"
    /\ Len(BulletLinesOf(cv_doc.shapes)) = 3

(***************************************************************************)
(* C20.  A subtitle shape that is not the promoted title is one level-2    *)
(* heading line: '## ' and its rendered paragraphs joined by single        *)
(* spaces, then a blank line, with or without bullet markers in the shape; *)
(* none of its paragraphs is a paragraph or bullet line of its own.        *)
(***************************************************************************)
IsSubtitle(shapes, j) ==
    Attached(shapes[j]) /\ shapes[j].type = "subTitle" /\ ~Promoted(shapes, j)

\* the texts of the paragraphs of a shape that have a run, joined by blanks
JoinedTexts(shape) ==
    join(SelectSeq([n \in 1..Len(shape.paras) |-> shape.paras[n].text],
                   LAMBDA t : t # <<>>),
         <<" ">>)

SubtitleLinesOf(shapes) ==
    Concat([j \in 1..Len(shapes) |->
                IF IsSubtitle(shapes, j)
                THEN << <<"#", "#", " ">> \o JoinedTexts(shapes[j]) >>
                ELSE <<>>])

\* the number of lines with text a slide without tables and notes has: its
\* heading, a line per subtitle, a line per written paragraph of the other
\* shapes, or the line of the empty slide
RECURSIVE TextLineCount(_, _)
TextLineCount(shapes, j) ==
    IF j > Len(shapes) THEN 0
    ELSE (IF Promoted(shapes, j) \/ ~Attached(shapes[j]) THEN 0
          ELSE IF IsSubtitle(shapes, j) THEN 1
          ELSE Len(WrittenTexts(shapes[j])))
         + TextLineCount(shapes, j + 1)

C20_SubtitleHeading ==
    SlideDone =>
        LET lines == SplitLines(cv_out)
        IN  /\ SelectSeq(lines, LAMBDA line : starts_with(line, <<"#", "#", " ">>))
                   = SubtitleLinesOf(cv_doc.shapes)
            /\ \A i \in 1..Len(lines) :
                   starts_with(lines[i], <<"#", "#", " ">>) =>
                       i < Len(lines) /\ lines[i + 1] = <<>>
            /\ (cv_doc.tables = <<>> /\ cv_doc.notes = NoNotes) =>
                   Len(SelectSeq(lines, LAMBDA line : line # <<>>))
                       = 1 + (IF \E j \in 1..Len(cv_doc.shapes) : Attached(cv_doc.shapes[j])
                              THEN TextLineCount(cv_doc.shapes, 1) ELSE 1)

C20_Witness ==
    /\ SlideDone
    /\ Len(cv_doc.shapes) = 2
    /\ IsSubtitle(cv_doc.shapes, 2) /\ Marked(cv_doc.shapes[2])
    /\ Len(cv_doc.shapes[2].paras) = 2
    /\ cv_doc.shapes[2].paras[1].text = <<"x">>
    /\ cv_doc.shapes[2].paras[2].text = <<" ", "y">>
    /\ Occurs(<<NL, "#", "#", " ", "x", " ", " ", "y", NL, NL>>, cv_out)

(***************************************************************************)
(* C21.  The line '*Empty slide*' is written for a slide exactly when no   *)
(* title was promoted for it, no shape with paragraphs remains to render   *)
(* and the slide's table list is empty; it is written at most once, and    *)
(* directly after the heading '# Slide N' and its blank line.              *)
(***************************************************************************)
NoTitlePromoted(shapes) == \A j \in 1..Len(shapes) : ~Promoted(shapes, j)

NoShapeRemains(shapes) ==
    \A j \in 1..Len(shapes) : Attached(shapes[j]) => Promoted(shapes, j)

\* a table element without rows is not in the table list
NoTableListed(tables) == \A k \in 1..Len(tables) : tables[k] = <<>>

EmptySlideLines(lines) == {i \in 1..Len(lines) : lines[i] = StrEmptySlide}

C21_EmptySlide ==
    SlideDone =>
        LET lines == SplitLines(cv_out)
        IN  /\ Cardinality(EmptySlideLines(lines)) <= 1
            /\ (EmptySlideLines(lines) # {}) <=>
                   /\ NoTitlePromoted(cv_doc.shapes)
                   /\ NoShapeRemains(cv_doc.shapes)
                   /\ NoTableListed(cv_doc.tables)
            /\ \A i \in EmptySlideLines(lines) :
                   /\ i = 3
                   /\ lines[1] = StrSlideHeading \o <<"1">>
                   /\ lines[2] = <<>>

C21_Witness ==
    /\ SlideDone
    /\ Len(cv_doc.shapes) = 1 /\ Marked(cv_doc.shapes[1]) /\ ~Attached(cv_doc.shapes[1])
    /\ cv_out = StrSlideHeading \o <<"1", NL, NL>> \o StrEmptySlide \o <<NL>>

IsEl(node, local) == node.node = "el" /\ local_name(node.name) = local

KidsNamed(node, local) == SelectSeq(node.kids, LAMBDA k : IsEl(k, local))

\* every text of a list of nodes, in source order
RECURSIVE TextsOf(_)
TextsOf(nodes) ==
    IF nodes = <<>> THEN <<>>
    ELSE (IF Head(nodes).node = "text" THEN Head(nodes).text
          ELSE TextsOf(Head(nodes).kids))
         \o TextsOf(Tail(nodes))

\* the elements of a name in a list of nodes, in the order in which they
\* close
RECURSIVE ElementsOf(_, _)
ElementsOf(nodes, local) ==
    IF nodes = <<>> THEN <<>>
    ELSE ElementsOf(Head(nodes).kids, local)
         \o (IF IsEl(Head(nodes), local) THEN <<Head(nodes)>> ELSE <<>>)
         \o ElementsOf(Tail(nodes), local)

WordAtEof == ps_kind = "word" /\ ps_state = "eof"
SlideAtEof == ps_kind = "slide" /\ ps_state = "eof"

(***************************************************************************)
(* C23.  In a well-nested word part each table element yields at its      *)
(* close exactly one Table block (none if it has no rows) that holds       *)
(* exactly the rows, and in each row exactly the cells, opened and closed  *)
(* directly inside that table, in source order; also when a table is       *)
(* nested in a cell of another table, whose rows and cells stay intact.    *)
(***************************************************************************)
\* the number of cells of each row of a table element
RowSizes(tbl) ==
    [k \in 1..Len(KidsNamed(tbl, "tr")) |-> Len(KidsNamed(KidsNamed(tbl, "tr")[k], "tc"))]

TablesWithRows(tree) ==
    SelectSeq(ElementsOf(tree, "tbl"), LAMBDA tbl : KidsNamed(tbl, "tr") # <<>>)

TableBlocks(paragraphs) == SelectSeq(paragraphs, LAMBDA b : b.kind = "Table")

C23_TableRowsAndCells ==
    WordAtEof =>
        /\ Len(TableBlocks(ps_wb.paragraphs)) = Len(TablesWithRows(ps_tree))
        /\ \A n \in 1..Len(TablesWithRows(ps_tree)) :
               [k \in 1..Len(TableBlocks(ps_wb.paragraphs)[n].rows) |->
                    Len(TableBlocks(ps_wb.paragraphs)[n].rows[k])]
                   = RowSizes(TablesWithRows(ps_tree)[n])

(***************************************************************************)
(* C24.  At the end of input of a well-nested part the builder is back in  *)
(* the Idle state: every in-paragraph, in-run, in-table, in-row and        *)
(* in-cell flag set by an open event has been cleared by the matching      *)
(* close event, in the word builder and in the presentation builder alike, *)
(* also for paragraphs and runs inside table cells.                        *)
(***************************************************************************)
FlagsClear(st) ==
    /\ ~st.in_paragraph /\ ~st.in_run
    /\ ~st.in_table /\ ~st.in_table_row /\ ~st.in_table_cell

C24_IdleAtEof ==
    /\ WordAtEof => FlagsClear(ps_wb)
    /\ SlideAtEof => FlagsClear(ps_sb)

(***************************************************************************)
(* C25.  Every shape in the slide's shape list has at least one paragraph, *)
(* every retained paragraph at least one run and every retained run a      *)
(* text that is not empty: a run without text, a paragraph without runs    *)
(* and a shape without paragraphs (a picture) are dropped when they close. *)
(***************************************************************************)
RunsHaveText(para) == para # <<>> /\ \A r \in 1..Len(para) : para[r].text # <<>>

ParagraphsHaveRuns(paragraphs) ==
    \A n \in 1..Len(paragraphs) : RunsHaveText(paragraphs[n])

\* a paragraph element that is retained: one of its runs has a text
ParaRetained(p) ==
    \E r \in 1..Len(KidsNamed(p, "r")) : TextsOf(<<KidsNamed(p, "r")[r]>>) # <<>>

\* a shape element that is retained: one of its paragraphs is
ShapeRetained(sp) ==
    \E b \in 1..Len(KidsNamed(sp, "txBody")) :
        \E n \in 1..Len(KidsNamed(KidsNamed(sp, "txBody")[b], "p")) :
            ParaRetained(KidsNamed(KidsNamed(sp, "txBody")[b], "p")[n])

\* the shape and picture elements of the slide that are not inside a table
ShapeElements(tree) ==
    SelectSeq(tree, LAMBDA x : IsEl(x, "sp") \/ IsEl(x, "pic"))

C25_NothingEmptyRetained ==
    ps_kind = "slide" =>
        /\ \A k \in 1..Len(ps_sb.shapes) :
               /\ ps_sb.shapes[k].paragraphs # <<>>
               /\ ParagraphsHaveRuns(ps_sb.shapes[k].paragraphs)
        /\ ParagraphsHaveRuns(ps_sb.paragraphs)
        /\ \A r \in 1..Len(ps_sb.current_paragraph) :
               ps_sb.current_paragraph[r].text # <<>>
        /\ ps_state = "eof" =>
               Len(ps_sb.shapes)
                   = Len(SelectSeq(ShapeElements(ps_tree), ShapeRetained))

C25_Witness ==
    /\ SlideAtEof
    /\ ps_tree = <<SPicture(<<Ph("title")>>),
                   SShape("sp", <<>>, <<SPara(<<>>), SPara(<<SRunNoText, SRun(<<"x">>)>>)>>)>>
    /\ ps_sb.shapes = <<SlideShape(<< <<TextRun(<<"x">>, FALSE, FALSE)>> >>,
                                   FALSE, FALSE, FALSE)>>

(***************************************************************************)
(* C26.  A retained shape is flagged is_title exactly when the placeholder *)
(* type read inside that shape is 'title' or 'ctrTitle', is_subtitle       *)
(* exactly when it is 'subTitle', and neither for any other type or        *)
(* without a placeholder; the two flags are never both true, and a         *)
(* placeholder seen in one shape or outside any shape never classifies     *)
(* another shape.                                                          *)
(***************************************************************************)
\* the type of the placeholder element directly inside a shape element
\* (the shapes of the checked parts hold at most one), "" without one
PlaceholderType(sp) ==
    IF \E k \in 1..Len(sp.kids) :
           /\ sp.kids[k].node = "empty" /\ local_name(sp.kids[k].name) = "ph"
           /\ sp.kids[k].attrs # <<>>
    THEN (CHOOSE k \in {sp.kids[n] : n \in 1..Len(sp.kids)} :
              k.node = "empty" /\ local_name(k.name) = "ph" /\ k.attrs # <<>>).attrs[1].value
    ELSE ""

RetainedShapes(tree) == SelectSeq(ShapeElements(tree), ShapeRetained)

C26_PlaceholderClassifies ==
    /\ ps_kind = "slide" =>
           \A k \in 1..Len(ps_sb.shapes) :
               ~(ps_sb.shapes[k].is_title /\ ps_sb.shapes[k].is_subtitle)
    /\ SlideAtEof =>
           /\ Len(ps_sb.shapes) = Len(RetainedShapes(ps_tree))
           /\ \A k \in 1..Len(RetainedShapes(ps_tree)) :
                  /\ ps_sb.shapes[k].is_title
                         <=> PlaceholderType(RetainedShapes(ps_tree)[k]) \in {"title", "ctrTitle"}
                  /\ ps_sb.shapes[k].is_subtitle
                         <=> PlaceholderType(RetainedShapes(ps_tree)[k]) = "subTitle"

\* a placeholder of type title outside any shape, then a shape without one
C26_Witness ==
    /\ SlideAtEof
    /\ ps_tree = <<Ph("title"), SShape("sp", <<>>, <<SPara(<<SRun(<<"x">>)>>)>>)>>
    /\ Len(ps_sb.shapes) = 1
    /\ ~ps_sb.shapes[1].is_title /\ ~ps_sb.shapes[1].is_subtitle

(***************************************************************************)
(* C27.  A word paragraph without a heading or quote style is classified   *)
(* as ListItem whenever a numbering-properties element occurs anywhere     *)
(* inside it, self-closing or an open/close pair, whichever children it    *)
(* has.                                                                    *)
(***************************************************************************)
\* every node below a list of nodes, the nodes of the list included
RECURSIVE NodesOf(_)
NodesOf(nodes) ==
    IF nodes = <<>> THEN <<>>
    ELSE <<Head(nodes)>> \o NodesOf(Head(nodes).kids) \o NodesOf(Tail(nodes))

HasNamed(p, local) ==
    \E k \in 1..Len(NodesOf(p.kids)) :
        /\ NodesOf(p.kids)[k].node \in {"el", "empty"}
        /\ local_name(NodesOf(p.kids)[k].name) = local

\* the paragraph carries a style that makes it a heading or a quote
HeadingOrQuoteStyled(p) ==
    \E k \in 1..Len(NodesOf(p.kids)) :
        /\ NodesOf(p.kids)[k].node = "empty"
        /\ local_name(NodesOf(p.kids)[k].name) = "pStyle"
        /\ \/ heading_level(NodesOf(p.kids)[k].attrs[1].value) # 0
           \/ is_blockquote(NodesOf(p.kids)[k].attrs[1].value)

\* the part is one paragraph with text, outside any table
OneParagraph ==
    /\ WordAtEof
    /\ Len(ps_tree) = 1
    /\ IsEl(ps_tree[1], "p")
    /\ TextsOf(ps_tree) # <<>>

C27_NumberedIsListItem ==
    (OneParagraph /\ HasNamed(ps_tree[1], "numPr") /\ ~HeadingOrQuoteStyled(ps_tree[1]))
        => /\ Len(ps_wb.paragraphs) = 1
           /\ ps_wb.paragraphs[1].kind = "ListItem"

(***************************************************************************)
(* C28.  In the word builder the string of a table cell is the             *)
(* concatenation, in order, of all text received between the cell's open   *)
(* and close, trimmed, with no emphasis markers added; a paragraph that    *)
(* closes inside a cell never produces a top-level block and its text      *)
(* never appears in a paragraph block.                                     *)
(***************************************************************************)
\* the strings of the cells of a table element, row by row
CellStrings(tbl) ==
    [k \in 1..Len(KidsNamed(tbl, "tr")) |->
        [j \in 1..Len(KidsNamed(KidsNamed(tbl, "tr")[k], "tc")) |->
            trim(TextsOf(KidsNamed(KidsNamed(tbl, "tr")[k], "tc")[j].kids))]]

ParagraphBlocks(paragraphs) == SelectSeq(paragraphs, LAMBDA b : b.kind # "Table")

\* the paragraph elements of the body that are in no table
BodyParagraphs(tree) == SelectSeq(tree, LAMBDA n : IsEl(n, "p"))

C28_CellTextFlattened ==
    WordAtEof =>
        LET blocks == TableBlocks(ps_wb.paragraphs)
            tables == TablesWithRows(ps_tree)
        IN  /\ Len(blocks) = Len(tables)
            /\ \A n \in 1..Len(tables) : blocks[n].rows = CellStrings(tables[n])
            /\ Len(ParagraphBlocks(ps_wb.paragraphs)) = Len(BodyParagraphs(ps_tree))

(***************************************************************************)
(* C29.  In the presentation builder tables and shapes are built           *)
(* independently: text received inside a table cell is never added to a    *)
(* shape's paragraphs, a shape open or close inside a table neither starts *)
(* nor ends a shape, and every table with at least one row is appended to  *)
(* the table list exactly once, at its close, in encounter order.          *)
(***************************************************************************)
\* the texts of the runs of a shape of the builder, in order
ShapeTexts(shape) ==
    Concat([n \in 1..Len(shape.paragraphs) |->
               Concat([r \in 1..Len(shape.paragraphs[n]) |-> shape.paragraphs[n][r].text])])

\* the number of table elements closed by the events read so far
TablesClosed ==
    Len(SelectSeq(SubSeq(ps_events, 1, ps_n),
                  LAMBDA e : e.type = "End" /\ local_name(e.name) = "tbl"))

C29_TablesApartFromShapes ==
    ps_kind = "slide" =>
        LET closed == TablesWithRows(SubSeq(ElementsOf(ps_tree, "tbl"), 1, TablesClosed))
            shapes == RetainedShapes(ps_tree)
        IN  /\ Len(ps_sb.tables) = Len(closed)
            /\ \A n \in 1..Len(closed) : ps_sb.tables[n] = CellStrings(closed[n])
            /\ ps_state = "eof" =>
                   /\ Len(ps_sb.shapes) = Len(shapes)
                   /\ \A k \in 1..Len(shapes) :
                          ShapeTexts(ps_sb.shapes[k]) = TextsOf(shapes[k].kids)

\* a table that holds a shape element and a row, then a shape
C29_Witness ==
    /\ SlideAtEof
    /\ ps_tree = <<STable(<<STitle, SRow(<<SCell(<<"c">>)>>)>>), SBody>>
    /\ ps_sb.tables = << << <<"c">> >> >>
    /\ Len(ps_sb.shapes) = 1
    /\ ShapeTexts(ps_sb.shapes[1]) = <<"x">>

(***************************************************************************)
(* C30.  Unrecognised tags are a no-op: inserting a self-closing element   *)
(* or a matching open/close pair of an unrecognised tag at any position    *)
(* of a well-formed event sequence (and so removing one) changes neither   *)
(* the content the builder produces nor whether it succeeds, for the word  *)
(* builder and for the presentation builder.                               *)
(***************************************************************************)
\* a tag neither builder knows, with an attribute each of them reads on
\* another tag
UnknownName == IF ps_kind = "word" THEN Wx("proofErr") ELSE Ax("ext")
UnknownAttrs ==
    IF ps_kind = "word" THEN <<Attr(<<"w", "val">>, StyleHeading1)>>
    ELSE <<Attr(<<"type">>, "title")>>

InsertAt(events, i, more) ==
    SubSeq(events, 1, i) \o more \o SubSeq(events, i + 1, Len(events))

\* the events open and close in pairs, none closing before it opens
RECURSIVE BalancedFrom(_, _)
BalancedFrom(events, depth) ==
    IF events = <<>> THEN depth = 0
    ELSE IF Head(events).type = "Start" THEN BalancedFrom(Tail(events), depth + 1)
    ELSE IF Head(events).type = "End"
    THEN depth > 0 /\ BalancedFrom(Tail(events), depth - 1)
    ELSE BalancedFrom(Tail(events), depth)

\* the positions inside the root element, before the event that ends the part
InnerPositions == 1..(Len(ps_events) - 2)

WithEmptyAt(i) == InsertAt(ps_events, i, <<EmptyEv(UnknownName, UnknownAttrs)>>)

WithPairAt(i, j) ==
    InsertAt(InsertAt(ps_events, j, <<EndEv(UnknownName)>>),
             i, <<StartEv(UnknownName, UnknownAttrs)>>)

BuilderResult(events) ==
    IF ps_kind = "word" THEN parse_document(events) ELSE extract_slide_content(events)

C30_UnknownTagsIgnored ==
    ps_state \in {"eof", "err"} =>
        LET result == BuilderResult(ps_events)
        IN  /\ ps_state = "eof" =>
                   result = IF ps_kind = "word" THEN Ok(ps_wb.paragraphs)
                            ELSE Ok(SlideContent(ps_sb.shapes, ps_sb.tables))
            /\ ps_state = "err" => ~result.ok
            /\ \A i \in InnerPositions : BuilderResult(WithEmptyAt(i)) = result
            /\ \A i \in InnerPositions : \A j \in InnerPositions :
                   (i <= j /\ BalancedFrom(SubSeq(ps_events, i + 1, j), 0))
                       => BuilderResult(WithPairAt(i, j)) = result

\* a slide with a body shape: the unknown element carries type="title"
C30_Witness ==
    /\ SlideAtEof
    /\ ps_tree = <<SBody>>
    /\ Len(ps_sb.shapes) = 1 /\ ~ps_sb.shapes[1].is_title
    /\ \E i \in InnerPositions :
           /\ ps_events[i].type = "Start" /\ local_name(ps_events[i].name) = "sp"
           /\ WithEmptyAt(i)[i + 1] = EmptyEv(Ax("ext"), <<Attr(<<"type">>, "title")>>)
           /\ extract_slide_content(WithEmptyAt(i)) = Ok(SlideContent(ps_sb.shapes, ps_sb.tables))

(***************************************************************************)
(* C31.  Extraction of one part shares no state with any other part:       *)
(* replacing the XML of one slide, or of its notes, by other well-formed   *)
(* XML never changes the rendered body of any other slide of the same      *)
(* presentation.                                                           *)
(***************************************************************************)
\* the input with the data of its k-th part replaced
PartReplaced(k, data) == [cv_input EXCEPT !.entries[k].data = data]

WellFormedData == {d \in EntryData : WellFormed(d)}

\* the part name of the notes of a slide: the same number, the notes prefix
NotesPartOf(slide_name) == <<PNotes>> \o Tail(slide_name)

\* the slides that the k-th part is neither the XML nor the notes of
OtherSlides(k) ==
    {i \in 1..Len(SortedSlides) :
         /\ SortedSlides[i] # cv_input.entries[k].name
         /\ NotesPartOf(SortedSlides[i]) # cv_input.entries[k].name}

C31_PartsDoNotInterfere ==
    (Done("PowerPointConverter") /\ cv_input.zip /\ cv_res.ok) =>
        LET chunks == SlideChunks(cv_out)
        IN  \A k \in 1..Len(cv_input.entries) : \A d \in WellFormedData :
                LET other == PowerPointConverter_convert(PartReplaced(k, d), cv_sink)
                IN  /\ ~cv_sink.limited => other.res.ok
                    /\ other.res.ok =>
                           LET chunks2 == SlideChunks(other.out)
                           IN  /\ Len(chunks2) = Len(chunks)
                               /\ \A i \in OtherSlides(k) : chunks2[i] = chunks[i]

\* two slides, the first with notes: other notes change the output, and
\* the second slide is one of the slides compared
C31_Witness ==
    /\ Done("PowerPointConverter") /\ cv_res.ok /\ ~cv_sink.limited
    /\ Len(cv_input.entries) = 3
    /\ cv_input.entries[2].data = Readable(DocTitle)
    /\ cv_input.entries[3].data = Readable(DocBodyThenTitle)
    /\ OtherSlides(2) = {2}
    /\ OtherSlides(1) = {2}
    /\ OtherSlides(3) = {1}
    /\ PowerPointConverter_convert(PartReplaced(2, Readable(DocEmpty)), cv_sink).out # cv_out
    /\ PowerPointConverter_convert(PartReplaced(1, Readable(DocEmpty)), cv_sink).out # cv_out

(***************************************************************************)
(* C32.  When WordConverter::convert fails because the input is not a zip  *)
(* container, because the part 'word/document.xml' is missing, or because  *)
(* that part's XML is malformed, nothing at all has been written to the    *)
(* sink.                                                                   *)
(***************************************************************************)
DocumentMalformed ==
    /\ HasEntry(WordDocumentXml)
    /\ DataOf(WordDocumentXml).readable
    /\ ~parse_document(DataOf(WordDocumentXml).events).ok

C32_NothingWrittenOnFailure ==
    (/\ Done("WordConverter")
     /\ (~cv_input.zip \/ ~HasEntry(WordDocumentXml) \/ DocumentMalformed))
        => (~cv_res.ok /\ cv_out = <<>>)

\* the document part holds a whole paragraph before the place where the
\* reader fails
C32_Witness ==
    /\ Done("WordConverter")
    /\ DocumentMalformed
    /\ parse_document(SelectSeq(DataOf(WordDocumentXml).events,
                                LAMBDA e : e.type # "Err")).value # <<>>
    /\ ~cv_res.ok /\ cv_out = <<>>

(***************************************************************************)
(* C33.  Within the output of a slide the sections appear in one fixed     *)
(* order: the heading, then the content of the shapes in shape-list order, *)
(* then all tables in encounter order, then the Notes line; a table is     *)
(* rendered after every shape of its slide, also when it precedes those    *)
(* shapes in the slide XML.                                                *)
(***************************************************************************)
\* a slide was converted whose tables all have rows, and their rows cells
OrderedSlideDone ==
    /\ Done("PowerPointConverter") /\ cv_res.ok
    /\ cv_doc.kind \in {"slide", "slideTablesFirst"}
    /\ \A k \in 1..Len(cv_doc.tables) :
           /\ cv_doc.tables[k] # <<>>
           /\ \A r \in 1..Len(cv_doc.tables[k]) : cv_doc.tables[k][r] # <<>>

\* the lines the shapes of a slide are written as, shape by shape
ShapeLinesOf(shapes) ==
    Concat([j \in 1..Len(shapes) |->
                IF Promoted(shapes, j) \/ ~Attached(shapes[j]) THEN <<>>
                ELSE IF IsSubtitle(shapes, j)
                THEN << <<"#", "#", " ">> \o JoinedTexts(shapes[j]) >>
                ELSE IF Marked(shapes[j])
                THEN [n \in 1..Len(WrittenTexts(shapes[j])) |->
                          <<"-", " ">> \o WrittenTexts(shapes[j])[n]]
                ELSE WrittenTexts(shapes[j])])

\* a notes part gives a Notes line: one of its paragraphs has a character
\* that is not a blank or a digit
NotesWritten(notes) ==
    /\ notes.present
    /\ \E j \in 1..Len(notes.shapes) : \E n \in 1..Len(WrittenTexts(notes.shapes[j])) :
           \E c \in 1..Len(WrittenTexts(notes.shapes[j])[n]) :
               ~IsDigit(WrittenTexts(notes.shapes[j])[n][c])

IsTableLine(line) == StartsWith(line, <<"|">>)
IsRowLine(line) == IsTableLine(line) /\ \A c \in 1..Len(line) : line[c] # "-"

C33_SectionOrder ==
    OrderedSlideDone =>
        LET lines == SplitLines(cv_out)
            notesAt == {i \in 1..Len(lines) : StartsWith(lines[i], StrNotes)}
            last == IF notesAt = {} THEN Len(lines)
                    ELSE (CHOOSE i \in notesAt : \A j \in notesAt : i <= j) - 1
            body == SubSeq(lines, 2, last)
            shapeLines == SelectSeq(body, LAMBDA l : l # <<>> /\ ~IsTableLine(l))
            rowLines == SelectSeq(body, IsRowLine)
            rows == Concat(cv_doc.tables)
        IN  /\ StartsWith(lines[1], <<"#", " ">>)
            /\ Cardinality(notesAt) <= 1
            /\ (notesAt # {}) <=> NotesWritten(cv_doc.notes)
            /\ shapeLines = IF EmptySlideLines(lines) # {} THEN <<StrEmptySlide>>
                            ELSE ShapeLinesOf(cv_doc.shapes)
            /\ Len(rowLines) = Len(rows)
            /\ \A k \in 1..Len(rows) : LineIsRow(rowLines[k], rows[k], Len(rows[k]))
            /\ \A i \in 1..Len(body) : \A j \in 1..Len(body) :
                   (IsTableLine(body[i]) /\ body[j] # <<>> /\ ~IsTableLine(body[j]))
                       => j < i
            /\ \A i \in 1..Len(lines) : IsTableLine(lines[i]) => i <= last

\* two tables stand before the shape in the part; there are notes
C33_Witness ==
    /\ OrderedSlideDone
    /\ cv_doc.kind = "slideTablesFirst"
    /\ cv_doc.shapes = <<BodyShape>>
    /\ cv_doc.tables = << <<RowD>>, <<RowC>> >>
    /\ cv_doc.notes = Notes(<<BodyShape>>)
    /\ Len(SelectSeq(SplitLines(cv_out), IsRowLine)) = 2
    /\ Occurs(<<"x", NL, NL, "|", " ", "d", " ", "|", NL>>, cv_out)

(***************************************************************************)
(* C34.  The number N of a synthesized heading '# Slide N' is the slide's  *)
(* 1-based position in the sorted slide list, not the integer in its part  *)
(* name: two slide parts without title whose names hold other integers     *)
(* are rendered with the headings '# Slide 1' and '# Slide 2'.             *)
(***************************************************************************)
\* the first line of a chunk that is not empty
FirstLine(chunk) ==
    IF \A n \in 1..Len(chunk) : chunk[n] = <<>> THEN <<>>
    ELSE chunk[CHOOSE n \in 1..Len(chunk) :
                   chunk[n] # <<>> /\ \A m \in 1..(n - 1) : chunk[m] = <<>>]

\* the part gives its slide no title: its first shape is no title shape
Untitled(name) ==
    ContentOf(name).shapes = <<>> \/ ~ContentOf(name).shapes[1].is_title

PositionDigit(i) == <<"1", "2", "3", "4", "5", "6", "7", "8", "9">>[i]

C34_HeadingNumberIsPosition ==
    (Done("PowerPointConverter") /\ cv_input.zip /\ cv_res.ok) =>
        LET chunks == SlideChunks(cv_out)
        IN  \A i \in 1..Len(SortedSlides) :
                Untitled(SortedSlides[i]) =>
                    /\ i <= Len(chunks)
                    /\ FirstLine(chunks[i]) = StrSlideHeading \o <<PositionDigit(i)>>

\* slide10.xml and slide2.xml, neither with a title
C34_Witness ==
    /\ Done("PowerPointConverter") /\ cv_res.ok
    /\ SortedSlides = << <<PSlide, "2", PXml>>, <<PSlide, "1", "0", PXml>> >>
    /\ Untitled(SortedSlides[1]) /\ Untitled(SortedSlides[2])
    /\ Occurs(StrSlideHeading \o <<"1", NL>>, cv_out)
    /\ Occurs(StrSlideHeading \o <<"2", NL>>, cv_out)

(***************************************************************************)
(* C35.  The kind and the text of a word paragraph block depend only on    *)
(* the events between that paragraph's own open and close: the style, the  *)
(* list-item flag, the bold and italic flags and the text of an earlier    *)
(* paragraph or table cell never carry over into a later paragraph.        *)
(***************************************************************************)
\* the blocks of the part that holds nothing but the one element
Alone(element) == parse_document(WordPart(<<element>>)).value

\* no table of the part stands in a cell of another one
NoTableInCell(tree) ==
    Len(ElementsOf(tree, "tbl")) = Len(SelectSeq(tree, LAMBDA n : IsEl(n, "tbl")))

C35_ParagraphStandsAlone ==
    WordAtEof =>
        LET blocks == ParagraphBlocks(ps_wb.paragraphs)
            paras == BodyParagraphs(ps_tree)
        IN  /\ \A k \in 1..Len(blocks) :
                   \E n \in 1..Len(ElementsOf(ps_tree, "p")) :
                       Alone(ElementsOf(ps_tree, "p")[n]) = <<blocks[k]>>
            /\ NoTableInCell(ps_tree) =>
                   /\ Len(blocks) = Len(paras)
                   /\ \A k \in 1..Len(paras) : Alone(paras[k]) = <<blocks[k]>>

\* a heading paragraph with a numbering element, then a plain paragraph
C35_Witness ==
    /\ WordAtEof
    /\ ps_tree = <<WPara(<<WPStyle(StyleHeading1), NumPrEmpty>>, <<WRun(<<"a">>)>>), WParaA>>
    /\ ps_wb.paragraphs = <<Heading(1, <<"a">>), TextBlock(<<"a">>)>>

(***************************************************************************)
(* C36.  PowerPointConverter::convert on a valid zip container that has no *)
(* part named 'ppt/slides/slide*.xml' returns success and writes nothing   *)
(* to the sink: neither a heading nor the '*Empty slide*' line.            *)
(***************************************************************************)
\* the name begins with 'ppt/slides/slide' and ends with '.xml'
IsSlidePartName(name) == name[1] = PSlide /\ name[Len(name)] = PXml

NoSlidePart ==
    /\ cv_input.zip
    /\ \A k \in 1..Len(cv_input.entries) : ~IsSlidePartName(cv_input.entries[k].name)

C36_NoSlidesNoOutput ==
    (Done("PowerPointConverter") /\ NoSlidePart) => (cv_res = Ok(<<>>) /\ cv_out = <<>>)

\* a container with a notes part and a document part, and no slide
C36_Witness ==
    /\ Done("PowerPointConverter")
    /\ NoSlidePart
    /\ Len(cv_input.entries) = 2
    /\ cv_input.entries[1].name = <<PNotes, "1", PXml>>
    /\ cv_input.entries[1].data = Readable(DocTitle)
    /\ cv_res.ok /\ cv_out = <<>>

====
